---- MODULE Spec2Model ----
(***************************************************************************)
(* Model of the ADB web interface backend: the package-name resolver and   *)
(* its batch scheduler (backend/index-local.js getAppName / getAppNames),  *)
(* and the telemetry capture pipeline with its session-scoped store        *)
(* (backend/index-local.js on SQLite, backend/index.js on PostgreSQL).     *)
(*                                                                         *)
(* JavaScript strings are TLA+ strings; the String and RegExp methods the  *)
(* code uses are operators below, computed character by character.        *)
(***************************************************************************)
EXTENDS Integers, Sequences, FiniteSets, TLC

VARIABLES
    \* ---- getAppNames (index-local.js:298-333)
    packageNames,   \* the argument of getAppNames
    i,              \* the loop variable of the batch loop (0-based)
    pcBatch,        \* where getAppNames is: idle, await_all, delay, done, rejected
    task,           \* the getAppName calls of the current batch, by position
    appNames,       \* the result object, as a set of <<packageName, appName>>
    started,        \* history: positions (1-based) whose getAppName was called
    delays,         \* history: how many pacing delays were observed
    anyOk,          \* history: some runAdb call of the run returned ok
    threw,          \* history: positions whose getAppName raised an exception
    lastResult,     \* per call: pmResult, stringsResult or dumpsysResult, the
                    \* result of the command that returned last
    \* ---- telemetry (index-local.js:47, 108-197, 423-574)
    clock,          \* Date.now()
    currentSessionId,
    db,             \* rows of performance_metrics, in rowid order
    nextRowId,      \* AUTOINCREMENT
    req,            \* the HTTP requests in progress, by request number
    issued,         \* history: the ids startNewSession generated, in order
    \* ---- capture of index.js (index.js:170-257)
    server,         \* which of the two servers the run is of
    pool,           \* index.js:35: whether the PostgreSQL pool exists
    snapshots,      \* rows of performance_snapshots
    pg,             \* the run-performance-check requests of index.js
    \* ---- the parsers of the diagnostic reports, applied on their own
    report,         \* the reports the battery and meminfo commands printed
    outcome         \* what the parser applied to it gave, if one was applied

resolverVars ==
    <<packageNames, i, pcBatch, task, appNames, started, delays, anyOk, threw,
      lastResult>>
storeVars == <<clock, currentSessionId, db, nextRowId, req, issued>>
pgVars == <<server, pool, snapshots, pg>>
parseVars == <<report, outcome>>
vars == <<resolverVars, storeVars, pgVars, parseVars>>

(***************************************************************************)
(* String and RegExp primitives                                            *)
(***************************************************************************)
LowerCase == "abcdefghijklmnopqrstuvwxyz"
UpperCase == "ABCDEFGHIJKLMNOPQRSTUVWXYZ"
Digits == "0123456789"

CharAt(s, k) == SubSeq(s, k, k)

RECURSIVE NumberToString(_)
\* Number.prototype.toString of a non-negative integer
NumberToString(n) ==
    IF n < 10 THEN CharAt(Digits, n + 1)
    ELSE NumberToString(n \div 10) \o CharAt(Digits, (n % 10) + 1)

\* index-local.js:47  let currentSessionId = Date.now().toString(), at the
\* first reading of the clock
InitialSessionId == NumberToString(1)

RECURSIVE PosIn(_, _, _)
\* position of character c in alphabet a at or after k, 0 when absent
PosIn(a, c, k) ==
    IF k > Len(a) THEN 0
    ELSE IF CharAt(a, k) = c THEN k
    ELSE PosIn(a, c, k + 1)

IsLower(c) == PosIn(LowerCase, c, 1) > 0
IsUpper(c) == PosIn(UpperCase, c, 1) > 0
IsDigit(c) == PosIn(Digits, c, 1) > 0
\* \s of a RegExp and the characters String.prototype.trim removes
IsSpace(c) == c \in {" ", "\n", "\t", "\r"}
\* what . of a RegExp does not match
IsLineEnd(c) == c \in {"\n", "\r"}

\* String.prototype.toUpperCase on one character
ToUpperCase(c) ==
    IF IsLower(c) THEN CharAt(UpperCase, PosIn(LowerCase, c, 1)) ELSE c

\* String.prototype.toLowerCase on one character
ToLowerChar(c) ==
    IF IsUpper(c) THEN CharAt(LowerCase, PosIn(UpperCase, c, 1)) ELSE c

RECURSIVE ToLowerCase(_)
ToLowerCase(s) ==
    IF s = "" THEN ""
    ELSE ToLowerChar(CharAt(s, 1)) \o ToLowerCase(SubSeq(s, 2, Len(s)))

\* s.startsWith(p, k - 1)
StartsWithAt(s, p, k) ==
    /\ k >= 1
    /\ k + Len(p) - 1 <= Len(s)
    /\ SubSeq(s, k, k + Len(p) - 1) = p

RECURSIVE IndexFrom(_, _, _)
\* s.indexOf(p, k - 1) + 1: the first position >= k where p occurs, else 0
IndexFrom(s, p, k) ==
    IF k + Len(p) - 1 > Len(s) THEN 0
    ELSE IF StartsWithAt(s, p, k) THEN k
    ELSE IndexFrom(s, p, k + 1)

\* String.prototype.includes
Includes(s, p) == IndexFrom(s, p, 1) > 0

RECURSIVE Split(_, _)
\* String.prototype.split on a one-character separator
Split(s, sep) ==
    LET k == IndexFrom(s, sep, 1) IN
    IF k = 0 THEN <<s>>
    ELSE <<SubSeq(s, 1, k - 1)>> \o Split(SubSeq(s, k + 1, Len(s)), sep)

RECURSIVE TrimStart(_)
TrimStart(s) ==
    IF s # "" /\ IsSpace(CharAt(s, 1)) THEN TrimStart(SubSeq(s, 2, Len(s))) ELSE s

RECURSIVE TrimEnd(_)
TrimEnd(s) ==
    IF s # "" /\ IsSpace(CharAt(s, Len(s))) THEN TrimEnd(SubSeq(s, 1, Len(s) - 1)) ELSE s

\* String.prototype.trim
Trim(s) == TrimEnd(TrimStart(s))

IsHexDigit(c) == IsDigit(c) \/ c \in {"a", "b", "c", "d", "e", "f"}

\* the character classes the regular expressions of the code use
InClass(cls, c) ==
    CASE cls = "space" -> IsSpace(c)                  \* \s
      [] cls = "dot" -> ~IsLineEnd(c)                 \* .
      [] cls = "notquote" -> c # "\""                 \* [^"]
      [] cls = "digit" -> IsDigit(c)                  \* \d, [0-9]
      [] cls = "hex" -> IsHexDigit(c)                 \* [0-9a-f]
      [] cls = "digitcomma" -> IsDigit(c) \/ c = ","  \* [\d,]

RECURSIVE RunEnd(_, _, _)
\* the last position of the run of characters of class cls that starts at
\* position k of s; k - 1 when there is no such character at k
RunEnd(s, k, cls) ==
    IF k <= Len(s) /\ InClass(cls, CharAt(s, k)) THEN RunEnd(s, k + 1, cls) ELSE k - 1

RECURSIVE LastIndexIn(_, _, _, _)
\* the last position in lo..hi of s holding character c, 0 when absent
LastIndexIn(s, c, lo, hi) ==
    IF hi < lo THEN 0
    ELSE IF CharAt(s, hi) = c THEN hi
    ELSE LastIndexIn(s, c, lo, hi - 1)

(***************************************************************************)
(* The regular expressions of getAppName.  A match is a record: found, and *)
(* g1, the text of capture group 1 (String.prototype.match without /g      *)
(* returns the leftmost match, its quantifiers greedy).                    *)
(***************************************************************************)
NoMatch == [found |-> FALSE, g1 |-> ""]
Match(g) == [found |-> TRUE, g1 |-> g]

RECURSIVE MatchPathFrom(_, _)
\* /package:(.+)=(.+)/ tried at the occurrences of "package:" from k on
MatchPathFrom(s, k) ==
    LET p == IndexFrom(s, "package:", k)
        q == p + Len("package:")
        e == RunEnd(s, q, "dot")
        m == LastIndexIn(s, "=", q + 1, e - 1)
    IN  IF p = 0 THEN NoMatch
        ELSE IF m > 0 THEN Match(SubSeq(s, q, m - 1))
        ELSE MatchPathFrom(s, p + 1)

\* index-local.js:208  pmResult.stdout.match(/package:(.+)=(.+)/)
MatchPath(s) == MatchPathFrom(s, 1)

RECURSIVE MatchQuotedLabelFrom(_, _)
MatchQuotedLabelFrom(s, k) ==
    LET p == IndexFrom(s, "label=\"", k)
        q == p + Len("label=\"")
        e == RunEnd(s, q, "notquote")
    IN  IF p = 0 THEN NoMatch
        ELSE IF e >= q /\ e < Len(s) THEN Match(SubSeq(s, q, e))
        ELSE MatchQuotedLabelFrom(s, p + 1)

\* index-local.js:229  /label="([^"]+)"/
MatchQuotedLabel(s) == MatchQuotedLabelFrom(s, 1)

RECURSIVE BacktrackSpace(_, _, _)
\* \s*(.+) after the spaces q..w ran to the end of the text: the last
\* position in q..w whose character . can match, 0 when there is none
BacktrackSpace(s, q, w) ==
    IF w < q THEN 0
    ELSE IF InClass("dot", CharAt(s, w)) THEN w
    ELSE BacktrackSpace(s, q, w - 1)

RECURSIVE MatchApplicationLabelFrom(_, _)
MatchApplicationLabelFrom(s, k) ==
    LET p == IndexFrom(s, "application-label:", k)
        q == p + Len("application-label:")
        w == RunEnd(s, q, "space")
        g == IF w < Len(s) THEN w + 1 ELSE BacktrackSpace(s, q, w)
    IN  IF p = 0 THEN NoMatch
        ELSE IF g > 0 THEN Match(SubSeq(s, g, RunEnd(s, g, "dot")))
        ELSE MatchApplicationLabelFrom(s, p + 1)

\* index-local.js:230  /application-label:\s*(.+)/
MatchApplicationLabel(s) == MatchApplicationLabelFrom(s, 1)

RECURSIVE MatchNonLocalizedLabelFrom(_, _)
MatchNonLocalizedLabelFrom(s, k) ==
    LET p == IndexFrom(s, "nonLocalizedLabel=", k)
        q == p + Len("nonLocalizedLabel=")
        e == RunEnd(s, q, "dot")
    IN  IF p = 0 THEN NoMatch
        ELSE IF e >= q THEN Match(SubSeq(s, q, e))
        ELSE MatchNonLocalizedLabelFrom(s, p + 1)

\* index-local.js:231  /nonLocalizedLabel=(.+)/
MatchNonLocalizedLabel(s) == MatchNonLocalizedLabelFrom(s, 1)

RECURSIVE MatchLabelResFrom(_, _)
MatchLabelResFrom(s, k) ==
    LET p == IndexFrom(s, "labelRes=0x", k)
        q == p + Len("labelRes=0x")
        h == RunEnd(s, q, "hex")
        w == RunEnd(s, h + 1, "space")
        e == RunEnd(s, w + 2, "dot")
        r == LastIndexIn(s, ")", w + 3, e)
    IN  IF p = 0 THEN NoMatch
        ELSE IF /\ h >= q
                /\ w >= h + 1
                /\ CharAt(s, w + 1) = "("
                /\ r > 0
             THEN Match(SubSeq(s, w + 2, r - 1))
        ELSE MatchLabelResFrom(s, p + 1)

\* index-local.js:232  /labelRes=0x[0-9a-f]+\s+\((.+)\)/
MatchLabelRes(s) == MatchLabelResFrom(s, 1)

\* index-local.js:228-233  const patterns = [...]
patterns == <<"quoted", "application-label", "nonLocalizedLabel", "labelRes">>

MatchPattern(pattern, s) ==
    CASE pattern = "quoted" -> MatchQuotedLabel(s)
      [] pattern = "application-label" -> MatchApplicationLabel(s)
      [] pattern = "nonLocalizedLabel" -> MatchNonLocalizedLabel(s)
      [] pattern = "labelRes" -> MatchLabelRes(s)

(***************************************************************************)
(* The name derived from the package name itself                            *)
(***************************************************************************)
RECURSIVE SpaceBeforeCapitals(_)
\* .replace(/([a-z])([A-Z])/g, '$1 $2')
SpaceBeforeCapitals(s) ==
    IF Len(s) < 2 THEN s
    ELSE IF IsLower(CharAt(s, 1)) /\ IsUpper(CharAt(s, 2))
         THEN CharAt(s, 1) \o " " \o CharAt(s, 2)
                  \o SpaceBeforeCapitals(SubSeq(s, 3, Len(s)))
    ELSE CharAt(s, 1) \o SpaceBeforeCapitals(SubSeq(s, 2, Len(s)))

\* .replace(/^./, str => str.toUpperCase())
CapitalizeFirst(s) ==
    IF s # "" /\ InClass("dot", CharAt(s, 1))
    THEN ToUpperCase(CharAt(s, 1)) \o SubSeq(s, 2, Len(s))
    ELSE s

RECURSIVE SpaceBeforeNumbers(_)
\* .replace(/([0-9]+)/g, ' $1')
SpaceBeforeNumbers(s) ==
    IF s = "" THEN ""
    ELSE IF IsDigit(CharAt(s, 1))
         THEN LET e == RunEnd(s, 1, "digit") IN
              " " \o SubSeq(s, 1, e) \o SpaceBeforeNumbers(SubSeq(s, e + 1, Len(s)))
    ELSE CharAt(s, 1) \o SpaceBeforeNumbers(SubSeq(s, 2, Len(s)))

\* index-local.js:264
genericWords == {"app", "android", "mobile", "main", "client", "user"}

\* index-local.js:254-274: the part of the package name that is kept
ReadablePart(packageName) ==
    LET nameParts == Split(packageName, ".")
        n == Len(nameParts)
        lastPart == nameParts[n]
        secondLastPart == nameParts[n - 1]
    IN  IF n >= 3
        THEN IF ToLowerCase(lastPart) \notin genericWords /\ Len(lastPart) > 2
             THEN lastPart
             ELSE IF /\ ToLowerCase(secondLastPart) \notin genericWords
                     /\ Len(secondLastPart) > 2
                  THEN secondLastPart
                  ELSE lastPart
        ELSE lastPart

\* index-local.js:253-284  Method 4: generate a readable name
GenerateReadableName(packageName) ==
    Trim(SpaceBeforeNumbers(CapitalizeFirst(SpaceBeforeCapitals(
        ReadablePart(packageName)))))

\* index-local.js:286-292  the catch block of getAppName
CatchFallback(packageName) ==
    LET nameParts == Split(packageName, ".")
        lastPart == nameParts[Len(nameParts)]
    IN  CapitalizeFirst(SpaceBeforeCapitals(lastPart))

(***************************************************************************)
(* Parsing of the diagnostic reports                                       *)
(***************************************************************************)
RECURSIVE RemoveCommas(_)
\* .replace(/,/g, '')
RemoveCommas(s) ==
    IF s = "" THEN ""
    ELSE IF CharAt(s, 1) = "," THEN RemoveCommas(SubSeq(s, 2, Len(s)))
    ELSE CharAt(s, 1) \o RemoveCommas(SubSeq(s, 2, Len(s)))

RECURSIVE DigitsValue(_, _)
\* the number written by the digits of s, after the value acc of the
\* digits before them
DigitsValue(s, acc) ==
    IF s = "" THEN acc
    ELSE DigitsValue(SubSeq(s, 2, Len(s)),
                     10 * acc + (PosIn(Digits, CharAt(s, 1), 1) - 1))

\* JavaScript values a metric can hold: a number, NaN, null
Num(n) == [kind |-> "number", v |-> n]
NaN == [kind |-> "NaN", v |-> 0]
Null == [kind |-> "null", v |-> 0]
\* what a negative number divided by zero gives
NegInfinity == [kind |-> "-Infinity", v |-> 0]

\* parseInt(s, 10) of a string of digits and of nothing else: the leading
\* digits are read, NaN when there is none
ParseInt(s) ==
    LET e == RunEnd(s, 1, "digit") IN
    IF e < 1 THEN NaN ELSE Num(DigitsValue(SubSeq(s, 1, e), 0))

RECURSIVE MatchLevelFrom(_, _)
MatchLevelFrom(s, k) ==
    LET p == IndexFrom(s, "level:", k)
        w == RunEnd(s, p + Len("level:"), "space")
        e == RunEnd(s, w + 1, "digit")
    IN  IF p = 0 THEN NoMatch
        ELSE IF e > w THEN Match(SubSeq(s, w + 1, e))
        ELSE MatchLevelFrom(s, p + 1)

\* index-local.js:439  /level:\s*(\d+)/   index.js:128  /\s*level:\s*(\d+)/
MatchLevel(s) == MatchLevelFrom(s, 1)

RECURSIVE MatchKbFrom(_, _, _)
\* /<field>\s*([\d,]+)\s*kB/ tried at the occurrences of field from k on
MatchKbFrom(s, field, k) ==
    LET p == IndexFrom(s, field, k)
        w == RunEnd(s, p + Len(field), "space")
        e == RunEnd(s, w + 1, "digitcomma")
        v == RunEnd(s, e + 1, "space")
    IN  IF p = 0 THEN NoMatch
        ELSE IF e > w /\ StartsWithAt(s, "kB", v + 1) THEN Match(SubSeq(s, w + 1, e))
        ELSE MatchKbFrom(s, field, p + 1)

\* index.js:138, index-local.js:448  /Total RAM:\s*([\d,]+)\s*kB/
MatchTotalRam(s) == MatchKbFrom(s, "Total RAM:", 1)
\* index.js:139  /Free RAM:\s*([\d,]+)\s*kB/
MatchFreeRam(s) == MatchKbFrom(s, "Free RAM:", 1)
\* index-local.js:449  /Available RAM:\s*([\d,]+)\s*kB/
MatchAvailableRam(s) == MatchKbFrom(s, "Available RAM:", 1)

\* a level of 0 where the text has no level field
parseBatteryOrZero(output) ==
    LET match == MatchLevel(output) IN
    IF match.found THEN ParseInt(match.g1) ELSE Num(0)

\* index.js:127-130
parseBattery(output) ==
    LET match == MatchLevel(output) IN
    IF match.found THEN ParseInt(match.g1) ELSE Null

\* Math.round(a / b) for b > 0: the nearest integer, halves upwards
RoundDiv(a, b) == (2 * a + b) \div (2 * b)

\* used memory counted in units of 1000 kB
parseMemoryDecimal(output) ==
    LET totalRamMatch == MatchTotalRam(output)
        freeRamMatch == MatchFreeRam(output)
        totalKb == ParseInt(RemoveCommas(totalRamMatch.g1))
        freeKb == ParseInt(RemoveCommas(freeRamMatch.g1))
    IN  IF totalRamMatch.found /\ freeRamMatch.found
        THEN IF totalKb = NaN \/ freeKb = NaN THEN NaN
             ELSE Num(RoundDiv(totalKb.v - freeKb.v, 1000))
        ELSE Null

\* index.js:137-148
parseMemory(output) ==
    LET totalRamMatch == MatchTotalRam(output)
        freeRamMatch == MatchFreeRam(output)
        totalKb == ParseInt(RemoveCommas(totalRamMatch.g1))
        freeKb == ParseInt(RemoveCommas(freeRamMatch.g1))
    IN  IF totalRamMatch.found /\ freeRamMatch.found
        THEN IF totalKb = NaN \/ freeKb = NaN THEN NaN
             ELSE Num(RoundDiv(totalKb.v - freeKb.v, 1024))
        ELSE Null

\* a battery level that is left empty
EmptyBatteryLevel == Null

\* index-local.js:437  let batteryLevel = 50
DefaultBatteryLevel == Num(50)
\* index-local.js:446  let memoryUsage = 512
DefaultMemoryUsage == Num(512)

\* index-local.js:436-443
LocalBatteryLevel(batteryResult) ==
    LET batteryMatch == MatchLevel(batteryResult.stdout) IN
    IF batteryResult.ok /\ batteryMatch.found
    THEN ParseInt(batteryMatch.g1)
    ELSE DefaultBatteryLevel

\* index-local.js:445-455: the share of the RAM in use, in percent
LocalMemoryUsage(memResult) ==
    LET memMatch == MatchTotalRam(memResult.stdout)
        availMatch == MatchAvailableRam(memResult.stdout)
        total == ParseInt(RemoveCommas(memMatch.g1))
        available == ParseInt(RemoveCommas(availMatch.g1))
    IN  IF memResult.ok /\ memMatch.found /\ availMatch.found
        THEN IF total = NaN \/ available = NaN THEN NaN
             ELSE IF total = Num(0)
                  THEN IF available = Num(0) THEN NaN ELSE NegInfinity
             ELSE Num(RoundDiv(100 * (total.v - available.v), total.v))
        ELSE DefaultMemoryUsage

\* index-local.js:438-439, index.js:127-130: the battery command gave a level
BatteryObtained(batteryResult) ==
    batteryResult.ok /\ MatchLevel(batteryResult.stdout).found

\* index-local.js:447-450: the meminfo command gave total and available RAM
AvailableObtained(memResult) ==
    /\ memResult.ok
    /\ MatchTotalRam(memResult.stdout).found
    /\ MatchAvailableRam(memResult.stdout).found

\* index.js:137-141: the meminfo command gave total and free RAM
FreeObtained(memoryResult) ==
    /\ memoryResult.ok
    /\ MatchTotalRam(memoryResult.stdout).found
    /\ MatchFreeRam(memoryResult.stdout).found

(***************************************************************************)
(* The device channel: runAdb resolves with {ok, stdout} and never rejects *)
(* (index-local.js:81-101).  The texts a command can print are drawn from  *)
(* the sets below.                                                         *)
(***************************************************************************)
ChannelResults(texts) == [ok : BOOLEAN, stdout : texts]

\* adb shell pm list packages -f <packageName>
PmListTexts(packageName) ==
    { "package:/data/app/base.apk=" \o packageName,
      "package:/system/app/Other.apk=other.pkg" }

\* adb shell strings <apkPath> | grep -i "app.*name\|label"
StringsTexts(packageName) ==
    { "  \n", " App Label \napp_name", packageName, "package:label" }

\* adb shell dumpsys package <packageName>
DumpsysTexts ==
    { "Packages:\n  versionName=1.0",
      "label=\"null\" nonLocalizedLabel=Zed Player\n",
      "  label=\" \" labelRes=0x7f0a (Res Name)",
      "application-label: \n",
      "application-label: com.whatsapp\n",
      "nonLocalizedLabel=null\nlabelRes=0x7f0a  (Res Name) x)" }

(***************************************************************************)
(* getAppName (index-local.js:202-293).  A call is a record: pc, the       *)
(* command it awaits (pm, strings, dumpsys) or how it settled (done,       *)
(* rejected); appName, the value it resolved with; threw, whether the try  *)
(* block raised.                                                           *)
(***************************************************************************)
Awaiting(cmd) == [pc |-> cmd, appName |-> "", threw |-> FALSE]
Resolved(name) == [pc |-> "done", appName |-> name, threw |-> FALSE]

\* index-local.js:286-292: the catch block resolves the call
CatchBlock(packageName) ==
    [pc |-> "done", appName |-> CatchFallback(packageName), threw |-> TRUE]

\* index-local.js:248: appNameMap[packageName].  No declaration of appNameMap
\* exists in the file, so evaluating the identifier raises a ReferenceError.
AppNameMapLookup(packageName) == [raises |-> TRUE, value |-> ""]

\* index-local.js:245-284: Method 3, then Method 4
LastMethods(packageName) ==
    LET mapped == AppNameMapLookup(packageName) IN
    IF mapped.raises THEN CatchBlock(packageName)
    ELSE IF mapped.value # "" THEN Resolved(mapped.value)
    ELSE Resolved(GenerateReadableName(packageName))

RECURSIVE ScanPatterns(_, _, _)
\* index-local.js:235-242: for (const pattern of patterns)
ScanPatterns(packageName, stdout, k) ==
    IF k > Len(patterns) THEN LastMethods(packageName)
    ELSE LET match == MatchPattern(patterns[k], stdout) IN
         IF match.found /\ match.g1 # "" /\ Trim(match.g1) # "null"
         THEN Resolved(Trim(match.g1))
         ELSE ScanPatterns(packageName, stdout, k + 1)

\* a failed pm list command that ends the try block
AfterPmListAborts(packageName, pmResult) ==
    IF ~pmResult.ok THEN CatchBlock(packageName)
    ELSE IF /\ Includes(pmResult.stdout, packageName)
            /\ MatchPath(pmResult.stdout).found
    THEN Awaiting("strings")
    ELSE Awaiting("dumpsys")

\* index-local.js:205-222: after pm list returned
AfterPmList(packageName, pmResult) ==
    IF /\ pmResult.ok
       /\ Includes(pmResult.stdout, packageName)
       /\ MatchPath(pmResult.stdout).found
    THEN Awaiting("strings")
    ELSE Awaiting("dumpsys")

\* a strings command after which Method 2 is left out
AfterStringsSkipsDumpsys(packageName, stringsResult) ==
    LET appName == Trim(Split(stringsResult.stdout, "\n")[1]) IN
    IF /\ stringsResult.ok
       /\ Trim(stringsResult.stdout) # ""
       /\ appName # ""
       /\ appName # packageName
       /\ ~Includes(appName, "package:")
    THEN Resolved(appName)
    ELSE LastMethods(packageName)

\* a strings command after which Method 2 runs whatever was found
AfterStringsThenDumpsys(packageName, stringsResult) == Awaiting("dumpsys")

\* index-local.js:213-220: after strings returned
AfterStrings(packageName, stringsResult) ==
    LET appName == Trim(Split(stringsResult.stdout, "\n")[1]) IN
    IF /\ stringsResult.ok
       /\ Trim(stringsResult.stdout) # ""
       /\ appName # ""
       /\ appName # packageName
       /\ ~Includes(appName, "package:")
    THEN Resolved(appName)
    ELSE Awaiting("dumpsys")

\* index-local.js:225-251: after dumpsys returned
AfterDumpsys(packageName, dumpsysResult) ==
    IF dumpsysResult.ok
    THEN ScanPatterns(packageName, dumpsysResult.stdout, 1)
    ELSE LastMethods(packageName)

(***************************************************************************)
(* getAppNames (index-local.js:298-333)                                    *)
(***************************************************************************)
\* index-local.js:304
batchSize == 3

\* the longest package list the model passes to getAppNames
MaxIds == 4

\* the package names the lists are made of
PackageIds ==
    << "com.example.app", "com.example.foo.MusicPlayer", "org.demo.player2",
       "com.whatsapp", "com.acme.mobile.client", "com.acme.notes" >>

\* the list of the first n package names (the table repeats beyond its end)
PackageList(n) ==
    [k \in 1..n |-> PackageIds[((k - 1) % Len(PackageIds)) + 1]]

\* index-local.js:205-251: for each package name and each result a command
\* can return, the point the call reaches next
PmListOutcomes ==
    UNION { { [packageName |-> PackageIds[k], result |-> r,
               next |-> AfterPmList(PackageIds[k], r)] :
                r \in ChannelResults(PmListTexts(PackageIds[k])) } :
            k \in 1..Len(PackageIds) }
StringsOutcomes ==
    UNION { { [packageName |-> PackageIds[k], result |-> r,
               next |-> AfterStrings(PackageIds[k], r)] :
                r \in ChannelResults(StringsTexts(PackageIds[k])) } :
            k \in 1..Len(PackageIds) }
DumpsysOutcomes ==
    UNION { { [packageName |-> PackageIds[k], result |-> r,
               next |-> AfterDumpsys(PackageIds[k], r)] :
                r \in ChannelResults(DumpsysTexts) } :
            k \in 1..Len(PackageIds) }

Min(a, b) == IF a <= b THEN a ELSE b

\* a batch that takes all the remaining package names
BatchOfAll(names, lo) == (lo + 1)..Len(names)

\* index-local.js:309  packageNames.slice(i, i + batchSize), as positions
Batch(names, lo) == (lo + 1)..Min(lo + batchSize, Len(names))

\* index-local.js:322  appNames[packageName] = appName
Put(obj, key, value) ==
    [x \in DOMAIN obj \cup {key} |-> IF x = key THEN value ELSE obj[x]]

RECURSIVE StoreResults(_, _, _, _, _)
\* index-local.js:321-323  batchResults.forEach(...), over positions lo..hi
StoreResults(obj, names, results, lo, hi) ==
    IF lo > hi THEN obj
    ELSE StoreResults(Put(obj, names[lo], results[lo].appName),
                      names, results, lo + 1, hi)

EmptyObject == [x \in {} |-> ""]

\* index-local.js:313-316  batch.map(async ...): every getAppName of the batch
\* runs up to its first await, the pm list command
StartBatch(names, lo) == [p \in Batch(names, lo) |-> Awaiting("pm")]

\* the result variables of a call before its first command returned
NoResults(names, lo) ==
    [p \in Batch(names, lo) |-> [cmd |-> "", ok |-> FALSE, stdout |-> ""]]
\* the result r of command cmd, as the call p holds it
WithResult(p, cmd, r) ==
    [lastResult EXCEPT ![p] = [cmd |-> cmd, ok |-> r.ok, stdout |-> r.stdout]]

\* a scheduler that goes on as soon as one call of the batch has resolved
AnyFulfilled(tasks) == \E p \in DOMAIN tasks : tasks[p].pc = "done"

\* index-local.js:318  Promise.all(batchPromises)
AllFulfilled(tasks) == \A p \in DOMAIN tasks : tasks[p].pc = "done"
SomeRejected(tasks) == \E p \in DOMAIN tasks : tasks[p].pc = "rejected"

\* a pacing delay after every batch, the last one too
DelayAfterEveryBatch(names, lo) == lo < Len(names)

\* index-local.js:326  if (i + batchSize < packageNames.length)
MoreBatches(names, lo) == lo + batchSize < Len(names)

\* index-local.js:298-318: the call, up to the first Promise.all
GetAppNames ==
    /\ pcBatch = "idle"
    /\ IF Len(packageNames) = 0
       THEN /\ pcBatch' = "done"
            /\ UNCHANGED <<task, started, lastResult>>
       ELSE /\ pcBatch' = "await_all"
            /\ task' = StartBatch(packageNames, 0)
            /\ lastResult' = NoResults(packageNames, 0)
            /\ started' = Batch(packageNames, 0)
    /\ UNCHANGED <<packageNames, i, appNames, delays, anyOk, threw, storeVars, pgVars, parseVars>>

\* the pm list command of one getAppName returns
PmListReturns(p) ==
    /\ p \in DOMAIN task
    /\ task[p].pc = "pm"
    /\ \E o \in PmListOutcomes :
          /\ o.packageName = packageNames[p]
          /\ task' = [task EXCEPT ![p] = o.next]
          /\ lastResult' = WithResult(p, "pm", o.result)
          /\ anyOk' = (anyOk \/ o.result.ok)
    /\ UNCHANGED <<packageNames, i, pcBatch, appNames, started, delays, threw, storeVars, pgVars, parseVars>>

\* the strings command of one getAppName returns
StringsReturns(p) ==
    /\ p \in DOMAIN task
    /\ task[p].pc = "strings"
    /\ \E o \in StringsOutcomes :
          /\ o.packageName = packageNames[p]
          /\ task' = [task EXCEPT ![p] = o.next]
          /\ lastResult' = WithResult(p, "strings", o.result)
          /\ anyOk' = (anyOk \/ o.result.ok)
    /\ UNCHANGED <<packageNames, i, pcBatch, appNames, started, delays, threw, storeVars, pgVars, parseVars>>

\* the dumpsys command of one getAppName returns
DumpsysReturns(p) ==
    /\ p \in DOMAIN task
    /\ task[p].pc = "dumpsys"
    /\ \E o \in DumpsysOutcomes :
          /\ o.packageName = packageNames[p]
          /\ task' = [task EXCEPT ![p] = o.next]
          /\ lastResult' = WithResult(p, "dumpsys", o.result)
          /\ anyOk' = (anyOk \/ o.result.ok)
          /\ threw' = IF o.next.threw THEN threw \cup {p} ELSE threw
    /\ UNCHANGED <<packageNames, i, pcBatch, appNames, started, delays, storeVars, pgVars, parseVars>>

\* index-local.js:318-328: Promise.all settles; the results are stored and
\* the loop either suspends for the pacing delay or ends
BatchSettles ==
    /\ pcBatch = "await_all"
    /\ IF SomeRejected(task)
       THEN /\ pcBatch' = "rejected"
            /\ UNCHANGED <<i, appNames>>
       ELSE /\ AllFulfilled(task)
            /\ appNames' = StoreResults(appNames, packageNames, task,
                                        i + 1, Min(i + batchSize, Len(packageNames)))
            /\ IF MoreBatches(packageNames, i)
               THEN pcBatch' = "delay" /\ i' = i
               ELSE pcBatch' = "done" /\ i' = i + batchSize
    /\ UNCHANGED <<packageNames, task, started, delays, anyOk, threw, lastResult,
                   storeVars, pgVars, parseVars>>

\* index-local.js:327, 308-318: the timer fires and the next batch starts
DelayElapsed ==
    /\ pcBatch = "delay"
    /\ i' = i + batchSize
    /\ task' = StartBatch(packageNames, i')
    /\ lastResult' = NoResults(packageNames, i')
    /\ started' = started \cup Batch(packageNames, i')
    /\ delays' = delays + 1
    /\ pcBatch' = "await_all"
    /\ UNCHANGED <<packageNames, appNames, anyOk, threw, storeVars, pgVars, parseVars>>

\* one getAppNames call on a list of package names
Init ==
    /\ \E n \in 0..MaxIds : packageNames = PackageList(n)
    /\ i = 0
    /\ pcBatch = "idle"
    /\ task = <<>>
    /\ appNames = EmptyObject
    /\ started = {}
    /\ delays = 0
    /\ anyOk = FALSE
    /\ threw = {}
    /\ lastResult = EmptyObject
    /\ clock = 1
    /\ currentSessionId = InitialSessionId
    /\ db = <<>>
    /\ nextRowId = 1
    /\ req = <<>>
    /\ issued = <<>>
    /\ server = "index-local.js"
    /\ pool = FALSE
    /\ snapshots = <<>>
    /\ pg = <<>>
    /\ report = [battery |-> "", meminfo |-> ""]
    /\ outcome = <<>>

Next ==
    \/ GetAppNames
    \/ \E p \in 1..Len(packageNames) : PmListReturns(p)
    \/ \E p \in 1..Len(packageNames) : StringsReturns(p)
    \/ \E p \in 1..Len(packageNames) : DumpsysReturns(p)
    \/ BatchSettles
    \/ DelayElapsed

Spec == Init /\ [][Next]_vars

(***************************************************************************)
(* The telemetry store of index-local.js: table performance_metrics, the   *)
(* process-wide currentSessionId, and the four request handlers.  The      *)
(* columns cpu_usage and device_info are written and never read by any     *)
(* decision of the code; the rows of the model leave them out.  A row      *)
(* carries `by`, the number of the request that captured it (history).     *)
(***************************************************************************)
\* the latest reading of Date.now() the model reaches
MaxClock == 2
\* the number of HTTP requests the model serves
MaxRequests == 2

\* index-local.js:479  getPerformanceHistory(20, currentSessionId)
CaptureHistoryLimit == 20

\* the value JavaScript calls undefined, for a field an object lacks
Undefined == "undefined"
\* the value null of a request parameter
NoSession == ""

Rows(table) == {table[k] : k \in 1..Len(table)}

RECURSIVE DescOrders(_)
\* ORDER BY timestamp DESC: the orders the engine may return the rows in
\* (rows of equal timestamp come in any order)
DescOrders(S) ==
    IF S = {} THEN {<<>>}
    ELSE UNION { { <<r>> \o t : t \in DescOrders(S \ {r}) } :
                 r \in {x \in S : \A y \in S : y.timestamp <= x.timestamp} }

\* LIMIT ?: a negative limit is no limit (SQLite)
Limit(rows, limit) ==
    IF limit < 0 THEN rows ELSE SubSeq(rows, 1, Min(limit, Len(rows)))

\* Array.prototype.reverse
Reverse(rows) == [k \in 1..Len(rows) |-> rows[Len(rows) + 1 - k]]

\* index-local.js:160-166  rows.map(row => ({captured_at: row.timestamp, ...}))
FormatRow(row) ==
    [captured_at |-> row.timestamp, battery_level |-> row.battery_level,
     memory_used_mb |-> row.memory_used_mb, session_id |-> row.session_id,
     by |-> row.by]

FormatRows(rows) == [k \in 1..Len(rows) |-> FormatRow(rows[k])]

\* index-local.js:146-149  if (sessionId) query += ` WHERE session_id = ?`
Selected(table, sessionId) ==
    IF sessionId # NoSession
    THEN {r \in Rows(table) : r.session_id = sessionId}
    ELSE Rows(table)

\* a history that keeps the engine's newest-first order
getPerformanceHistoryNewestFirst(table, limit, sessionId) ==
    { FormatRows(Limit(rows, limit)) : rows \in DescOrders(Selected(table, sessionId)) }

\* index-local.js:138-171: the results getPerformanceHistory can resolve with
getPerformanceHistory(table, limit, sessionId) ==
    { Reverse(FormatRows(Limit(rows, limit))) :
        rows \in DescOrders(Selected(table, sessionId)) }

\* a row that is stored without the session it belongs to
NewRowUntagged(id, data, sessionId, by) ==
    [id |-> id, timestamp |-> data.timestamp, battery_level |-> data.battery_level,
     memory_used_mb |-> data.memory_used_mb, session_id |-> NoSession, by |-> by]

\* index-local.js:116-123: the row savePerformanceMetric inserts
NewRow(id, data, sessionId, by) ==
    [id |-> id, timestamp |-> data.timestamp, battery_level |-> data.battery_level,
     memory_used_mb |-> data.memory_used_mb, session_id |-> sessionId, by |-> by]

\* index-local.js:483-488 and 494-499: the snapshot as the response holds it
CurrentOf(r, by) ==
    [captured_at |-> r.now, battery_level |-> r.battery,
     memory_used_mb |-> r.memory, session_id |-> Undefined, by |-> by]

\* adb shell dumpsys battery
BatteryTexts == {"  level: 87\n  scale: 100", "no battery field"}
\* adb shell dumpsys meminfo
MeminfoTexts ==
    { "Total RAM: 4,096,000 kB\n Free RAM: 1,024,000 kB\nAvailable RAM: 2,048,000 kB",
      "Total RAM: unknown" }

\* a request that has not produced anything yet
NewRequest(kind, pc) ==
    [kind |-> kind, pc |-> pc, battery |-> Null, memory |-> Null,
     batteryOk |-> FALSE, memoryOk |-> FALSE, now |-> 0,
     sid |-> "", hsid |-> "", limit |-> 0, saved |-> FALSE, status |-> 0,
     current |-> <<>>, history |-> <<>>, session_id |-> "", deleted |-> 0,
     removed |-> {}, lastID |-> 0]

\* index-local.js:537  parseInt(req.query.limit) || 50
DefaultHistoryLimit == 50
QueryLimit(q) == IF q = 0 THEN DefaultHistoryLimit ELSE q

\* the session ids the process has had
KnownSessions ==
    {currentSessionId} \cup {issued[k] : k \in 1..Len(issued)}
        \cup {row.session_id : row \in Rows(db)}

\* index-local.js:428-455: what the battery and meminfo commands and the
\* parsing of their output can give
LocalMetrics ==
    { [battery |-> LocalBatteryLevel(batteryResult),
       memory |-> LocalMemoryUsage(memResult),
       batteryOk |-> BatteryObtained(batteryResult),
       memoryOk |-> AvailableObtained(memResult)] :
        batteryResult \in ChannelResults(BatteryTexts),
        memResult \in ChannelResults(MeminfoTexts) }

\* Date.now() advances
Tick ==
    /\ clock < MaxClock
    /\ clock' = clock + 1
    /\ UNCHANGED <<currentSessionId, db, nextRowId, req, issued, resolverVars, pgVars, parseVars>>

\* index-local.js:423-471 and 116-123: POST /adb/run-performance-check.  The
\* battery, cpuinfo and meminfo commands return one after the other (nothing
\* shared is read or written until the last one has), the metrics are
\* parsed, the snapshot is built and savePerformanceMetric issues the INSERT
\* with the session id of this moment
CaptureStarts ==
    /\ server = "index-local.js"
    /\ Len(req) < MaxRequests
    /\ \E parsed \in LocalMetrics :
          req' = Append(req, [NewRequest("capture", "saving") EXCEPT
                                 !.battery = parsed.battery,
                                 !.memory = parsed.memory,
                                 !.batteryOk = parsed.batteryOk,
                                 !.memoryOk = parsed.memoryOk,
                                 !.now = clock,
                                 !.sid = currentSessionId])
    /\ UNCHANGED <<clock, currentSessionId, db, nextRowId, issued, resolverVars, pgVars, parseVars>>

\* index-local.js:123-131, 470-479: the INSERT ends, with an error or not;
\* the handler goes on either way and issues the history SELECT for the
\* session id of this moment
InsertCompletes(r) ==
    /\ req[r].kind = "capture" /\ req[r].pc = "saving"
    /\ \E ok \in BOOLEAN :
          LET data == [timestamp |-> req[r].now, battery_level |-> req[r].battery,
                       memory_used_mb |-> req[r].memory]
          IN  /\ db' = IF ok THEN Append(db, NewRow(nextRowId, data, req[r].sid, r))
                             ELSE db
              /\ nextRowId' = IF ok THEN nextRowId + 1 ELSE nextRowId
              /\ req' = [req EXCEPT ![r].pc = "reading",
                                    ![r].saved = ok,
                                    ![r].limit = CaptureHistoryLimit,
                                    ![r].hsid = currentSessionId]
    /\ UNCHANGED <<clock, currentSessionId, issued, resolverVars, pgVars, parseVars>>

\* index-local.js:483-488: the history when the SELECT failed
FallbackHistory(r, by) == <<CurrentOf(r, by)>>

\* index-local.js:154-169, 477-503: the SELECT ends; on an error the history
\* is the current snapshot alone; the response is sent
CaptureResponds(r) ==
    /\ req[r].kind = "capture" /\ req[r].pc = "reading"
    /\ \E ok \in BOOLEAN :
       \E rows \in getPerformanceHistory(db, req[r].limit, req[r].hsid) :
          req' = [req EXCEPT ![r].pc = "responded",
                             ![r].status = 200,
                             ![r].current = <<CurrentOf(req[r], r)>>,
                             ![r].history = IF ok THEN rows
                                            ELSE FallbackHistory(req[r], r),
                             ![r].session_id = currentSessionId]
    /\ UNCHANGED <<clock, currentSessionId, db, nextRowId, issued, resolverVars, pgVars, parseVars>>

\* a DELETE that removes the rows of the active session only
clearActiveSession(table) ==
    [table |-> SelectSeq(table, LAMBDA row : row.session_id # currentSessionId),
     changes |-> Cardinality({row \in Rows(table) : row.session_id = currentSessionId})]

\* index-local.js:176-190  clearPerformanceData: DELETE FROM
\* performance_metrics; the table after it and this.changes
clearPerformanceData(table) == [table |-> <<>>, changes |-> Len(table)]

\* history: the sessions of the rows a DELETE removed
RemovedSessions(before, after) ==
    {row.session_id : row \in Rows(before) \ Rows(after)}

\* a start of monitoring that leaves the table as it is
FreshWithoutDelete ==
    /\ server = "index-local.js"
    /\ Len(req) < MaxRequests
    /\ db' = db
    /\ req' = Append(req, NewRequest("fresh", "cleared"))
    /\ UNCHANGED <<clock, currentSessionId, nextRowId, issued, resolverVars, pgVars, parseVars>>

\* index-local.js:512-517, 176-188: POST /adb/start-fresh-monitoring; its
\* DELETE is executed
FreshDeleteApplied ==
    /\ server = "index-local.js"
    /\ Len(req) < MaxRequests
    /\ \E ok \in BOOLEAN :
          IF ok
          THEN /\ db' = clearPerformanceData(db).table
               /\ req' = Append(req, [NewRequest("fresh", "cleared") EXCEPT
                                         !.deleted = clearPerformanceData(db).changes,
                                         !.removed = RemovedSessions(db, db')])
          ELSE /\ db' = db
               /\ req' = Append(req, [NewRequest("fresh", "responded") EXCEPT
                                         !.status = 500])
    /\ UNCHANGED <<clock, currentSessionId, nextRowId, issued, resolverVars, pgVars, parseVars>>

\* index-local.js:193-197  startNewSession: Date.now().toString()
startNewSession(reading) == NumberToString(reading)

\* index-local.js:517-526: the DELETE has called back; startNewSession runs
\* and the response is sent
FreshContinues(r) ==
    /\ req[r].kind = "fresh" /\ req[r].pc = "cleared"
    /\ currentSessionId' = startNewSession(clock)
    /\ issued' = Append(issued, currentSessionId')
    /\ req' = [req EXCEPT ![r].pc = "responded", ![r].status = 200,
                          ![r].session_id = currentSessionId']
    /\ UNCHANGED <<clock, db, nextRowId, resolverVars, pgVars, parseVars>>

\* index-local.js:558-573, 176-188: DELETE /adb/clear-performance-data
ClearAll ==
    /\ server = "index-local.js"
    /\ Len(req) < MaxRequests
    /\ \E ok \in BOOLEAN :
          IF ok
          THEN /\ db' = clearPerformanceData(db).table
               /\ req' = Append(req, [NewRequest("clear", "responded") EXCEPT
                                         !.status = 200,
                                         !.deleted = clearPerformanceData(db).changes,
                                         !.removed = RemovedSessions(db, db')])
          ELSE /\ db' = db
               /\ req' = Append(req, [NewRequest("clear", "responded") EXCEPT
                                         !.status = 500])
    /\ UNCHANGED <<clock, currentSessionId, nextRowId, issued, resolverVars, pgVars, parseVars>>

\* the limit parameters the history requests of the model carry
HistoryQueryLimits == {0, 1}

\* index-local.js:535-554, 154-169: GET /adb/performance-history
GetHistory ==
    /\ server = "index-local.js"
    /\ Len(req) < MaxRequests
    /\ \E q \in HistoryQueryLimits, sessionId \in KnownSessions \cup {NoSession},
          ok \in BOOLEAN :
       \E rows \in getPerformanceHistory(db, QueryLimit(q), sessionId) :
          req' = Append(req, [NewRequest("history", "responded") EXCEPT
                                 !.limit = QueryLimit(q),
                                 !.hsid = sessionId,
                                 !.status = IF ok THEN 200 ELSE 500,
                                 !.history = IF ok THEN rows ELSE <<>>])
    /\ UNCHANGED <<clock, currentSessionId, db, nextRowId, issued, resolverVars, pgVars, parseVars>>

(***************************************************************************)
(* The capture handler of index.js: POST /adb/run-performance-check on the *)
(* PostgreSQL pool (index.js:170-257).  A request of it is a record: pc,   *)
(* the parsed metrics, the device serial, held (a pool client is checked   *)
(* out and not released), and its response.                                *)
(***************************************************************************)
\* adb shell getprop ro.serialno
SerialTexts == {"R58M12ABCDE\n", ""}

PgRequest(pc) ==
    [pc |-> pc, serial |-> "", battery |-> Null, memory |-> Null,
     serialOk |-> FALSE, batteryOk |-> FALSE, memoryOk |-> FALSE, held |-> FALSE,
     saved |-> FALSE, status |-> 0, current |-> <<>>, history |-> <<>>]

\* index.js:249  for (let i = 4; i >= 0; i--)
MockPoints == 5
\* index.js:251  now - (i * 60000)
MockInterval == 60000

\* the values of Math.random() the model draws, in tenths, and the
\* sequences of draws one call of generateMockHistoryData makes
RandomTenths == {0, 5, 9}
RandomDraws == {[k \in 1..(2 * MockPoints) |-> u] : u \in RandomTenths}
                 \cup {[k \in 1..(2 * MockPoints) |-> IF k % 2 = 0 THEN 0 ELSE 9]}

Max(a, b) == IF a >= b THEN a ELSE b

\* index.js:252  Math.max(0, Math.min(100, currentBattery + (Math.random() - 0.5) * 20))
MockBattery(currentBattery, u) ==
    IF currentBattery.kind = "number"
    THEN Num(Max(0, Min(100, currentBattery.v + (2 * u - 10))))
    ELSE NaN

\* index.js:253  Math.max(100, currentMemory + (Math.random() - 0.5) * 500)
MockMemory(currentMemory, u) ==
    IF currentMemory.kind = "number"
    THEN Num(Max(100, currentMemory.v + (50 * u - 250)))
    ELSE NaN

\* index.js:246-257: the point pushed for i = MockPoints - k
generateMockHistoryData(currentBattery, currentMemory, now, draws) ==
    [k \in 1..MockPoints |->
        [captured_at |-> now - ((MockPoints - k) * MockInterval),
         battery_level |-> MockBattery(currentBattery, draws[2 * k - 1]),
         memory_used_mb |-> MockMemory(currentMemory, draws[2 * k]),
         by |-> 0]]

\* index.js:236  current: { battery_level, memory_used_mb }
PgCurrent(r, by) ==
    [battery_level |-> r.battery, memory_used_mb |-> r.memory, by |-> by]

\* index.js:239-242: the catch block of the handler
PgFails(r) == [r EXCEPT !.pc = "responded", !.status = 500]

\* a database error that reaches the catch block of the handler
PgRespondsWithError(r, by, draws) == PgFails(r)

\* index.js:223-237: the response after a database error or without a pool
PgRespondsWithMock(r, by, draws) ==
    [r EXCEPT !.pc = "responded", !.status = 200,
              !.current = <<PgCurrent(r, by)>>,
              !.history = generateMockHistoryData(r.battery, r.memory, clock, draws)]

\* index.js:172-196: what the serial, battery and meminfo commands and the
\* parsing of their output can give: the request as it stands after step 3
\* of the handler, and whether one of the three throw statements ran
PgMetrics ==
    { [r |-> [PgRequest("connect") EXCEPT
                 !.serial = Trim(serialResult.stdout),
                 !.battery = parseBattery(batteryResult.stdout),
                 !.memory = parseMemory(memoryResult.stdout),
                 !.serialOk = serialResult.ok /\ serialResult.stdout # "",
                 !.batteryOk = BatteryObtained(batteryResult),
                 !.memoryOk = FreeObtained(memoryResult)],
       throws |-> \/ ~serialResult.ok \/ serialResult.stdout = ""
                  \/ ~batteryResult.ok \/ ~memoryResult.ok
                  \/ parseBattery(batteryResult.stdout) = Null
                  \/ parseMemory(memoryResult.stdout) = Null] :
        serialResult \in ChannelResults(SerialTexts),
        batteryResult \in ChannelResults(BatteryTexts),
        memoryResult \in ChannelResults(MeminfoTexts) }

\* index.js:170-202: the request arrives; the serial, battery and meminfo
\* commands return; the metrics are parsed; without a pool the response is
\* sent with a generated history, with one a client is asked of the pool
PgCaptureStarts ==
    /\ server = "index.js"
    /\ Len(pg) < MaxRequests
    /\ \E parsed \in PgMetrics, draws \in RandomDraws :
          pg' = Append(pg,
                  IF parsed.throws
                  THEN PgFails([PgRequest("commands") EXCEPT
                                   !.serialOk = parsed.r.serialOk,
                                   !.batteryOk = parsed.r.batteryOk,
                                   !.memoryOk = parsed.r.memoryOk])
                  ELSE IF pool THEN parsed.r
                  ELSE PgRespondsWithMock(parsed.r, Len(pg) + 1, draws))
    /\ UNCHANGED <<server, pool, snapshots, storeVars, resolverVars, parseVars>>

\* index.js:202-208: pool.connect() settles; the INSERT is issued
PgConnected(r) ==
    /\ pg[r].pc = "connect"
    /\ \E ok \in BOOLEAN, draws \in RandomDraws :
          pg' = [pg EXCEPT ![r] =
                    IF ok THEN [pg[r] EXCEPT !.pc = "insert", !.held = TRUE]
                    ELSE PgRespondsWithMock(pg[r], r, draws)]
    /\ UNCHANGED <<server, pool, snapshots, storeVars, resolverVars, parseVars>>

\* index.js:208-217: the INSERT ends; the SELECT is issued
PgInsertCompletes(r) ==
    /\ pg[r].pc = "insert"
    /\ \E ok \in BOOLEAN, draws \in RandomDraws :
          IF ok
          THEN /\ snapshots' = Append(snapshots,
                     [device_serial |-> pg[r].serial, captured_at |-> clock,
                      battery_level |-> pg[r].battery,
                      memory_used_mb |-> pg[r].memory, by |-> r])
               /\ pg' = [pg EXCEPT ![r].pc = "select", ![r].saved = TRUE]
          ELSE /\ snapshots' = snapshots
               /\ pg' = [pg EXCEPT ![r] = PgRespondsWithMock(pg[r], r, draws)]
    /\ UNCHANGED <<server, pool, storeVars, resolverVars, parseVars>>

RECURSIVE AscOrders(_)
\* ORDER BY captured_at ASC: the orders the engine may return the rows in
AscOrders(S) ==
    IF S = {} THEN {<<>>}
    ELSE UNION { { <<r>> \o t : t \in AscOrders(S \ {r}) } :
                 r \in {x \in S : \A y \in S : x.captured_at <= y.captured_at} }

\* index.js:212-215  SELECT battery_level, memory_used_mb, captured_at ...
PgSelectRow(row) ==
    [captured_at |-> row.captured_at, battery_level |-> row.battery_level,
     memory_used_mb |-> row.memory_used_mb, by |-> row.by]

\* index.js:211-218: the rows the SELECT can return
PgHistory(table, deviceSerial) ==
    { [k \in 1..Len(rows) |-> PgSelectRow(rows[k])] :
        rows \in AscOrders({row \in Rows(table) : row.device_serial = deviceSerial}) }

\* index.js:217-237: the SELECT ends; the client is released and the
\* response sent, or the history is generated
PgSelectCompletes(r) ==
    /\ pg[r].pc = "select"
    /\ \E ok \in BOOLEAN, draws \in RandomDraws :
       \E rows \in PgHistory(snapshots, pg[r].serial) :
          pg' = [pg EXCEPT ![r] =
                    IF ok
                    THEN [pg[r] EXCEPT !.pc = "responded", !.status = 200,
                                       !.held = FALSE,
                                       !.current = <<PgCurrent(pg[r], r)>>,
                                       !.history = rows]
                    ELSE PgRespondsWithMock(pg[r], r, draws)]
    /\ UNCHANGED <<server, pool, snapshots, storeVars, resolverVars, parseVars>>

(***************************************************************************)
(* The store functions of index-local.js called one at a time, each call   *)
(* running to its callback before the next: savePerformanceMetric,         *)
(* getPerformanceHistory and clearPerformanceData.                         *)
(* req holds the outcome of the last call, until the clock advances or the *)
(* next call is made.                                                      *)
(***************************************************************************)
\* the number of rows the calls insert
MaxRows == 5
\* the latest reading of Date.now() between the calls
MaxStamp == 5
\* the sessions a snapshot built at a clock reading can belong to: those
\* started (index-local.js:47, 195) at the first two readings and not later
SessionsAt(timestamp) == {NumberToString(k) : k \in 1..Min(timestamp, 2)}
\* the limit arguments of the calls
LimitArgs == {-1, 0, 1, 3}

\* Date.now() advances between two calls
Advance ==
    /\ clock < MaxStamp
    /\ clock' = clock + 1
    /\ req' = <<>>
    /\ UNCHANGED <<currentSessionId, db, nextRowId, issued, resolverVars, pgVars, parseVars>>

\* a save that resolves with an identifier of its own when the INSERT fails
savePerformanceMetricLocalId(err, lastID) ==
    [NewRequest("save", "resolved") EXCEPT !.saved = ~err, !.lastID = lastID]

\* index-local.js:123-131: the callback of db.run: reject(err) or
\* resolve(this.lastID)
savePerformanceMetricSettles(err, lastID) ==
    IF err THEN NewRequest("save", "rejected")
    ELSE [NewRequest("save", "resolved") EXCEPT !.saved = TRUE, !.lastID = lastID]

\* index-local.js:108-133  savePerformanceMetric(data) with data.session_id
\* given, for a snapshot built at this reading of the clock or at the one
\* before
SavePerformanceMetric ==
    /\ nextRowId <= MaxRows
    /\ \E timestamp \in {clock - 1, clock} \cap (1..MaxStamp), ok \in BOOLEAN :
       \E sessionId \in SessionsAt(timestamp) :
          LET data == [timestamp |-> timestamp, battery_level |-> Num(87),
                       memory_used_mb |-> Num(50)]
          IN  /\ db' = IF ok
                       THEN Append(db, NewRow(nextRowId, data, sessionId, nextRowId))
                       ELSE db
              /\ nextRowId' = IF ok THEN nextRowId + 1 ELSE nextRowId
              /\ req' = <<savePerformanceMetricSettles(~ok, nextRowId)>>
    /\ UNCHANGED <<clock, currentSessionId, issued, resolverVars, pgVars, parseVars>>

\* index-local.js:138-171  getPerformanceHistory(limit, sessionId) resolves
GetPerformanceHistory ==
    /\ \A r \in 1..Len(req) : req[r].kind # "history"
    /\ \E limit \in LimitArgs, sessionId \in KnownSessions \cup {NoSession} :
       \E rows \in getPerformanceHistory(db, limit, sessionId) :
          req' = <<[NewRequest("history", "responded") EXCEPT
                       !.limit = limit, !.hsid = sessionId, !.history = rows]>>
    /\ UNCHANGED <<clock, currentSessionId, db, nextRowId, issued, resolverVars, pgVars, parseVars>>

\* index-local.js:176-190  clearPerformanceData() resolves or rejects
ClearPerformanceData ==
    /\ db # <<>>
    /\ \E ok \in BOOLEAN :
          IF ok
          THEN /\ db' = clearPerformanceData(db).table
               /\ req' = <<[NewRequest("clear", "responded") EXCEPT
                               !.status = 200,
                               !.deleted = clearPerformanceData(db).changes,
                               !.removed = RemovedSessions(db, db')]>>
          ELSE /\ db' = db
               /\ req' = <<[NewRequest("clear", "responded") EXCEPT !.status = 500]>>
    /\ UNCHANGED <<clock, currentSessionId, nextRowId, issued, resolverVars, pgVars, parseVars>>

\* the server of index-local.js (and, beside it, the one of index.js) from
\* its start: currentSessionId is the clock reading of the start
InitStore ==
    /\ packageNames = <<>>
    /\ i = 0
    /\ pcBatch = "idle"
    /\ task = <<>>
    /\ appNames = EmptyObject
    /\ started = {}
    /\ delays = 0
    /\ anyOk = FALSE
    /\ threw = {}
    /\ lastResult = EmptyObject
    /\ clock = 1
    /\ currentSessionId = InitialSessionId
    /\ db = <<>>
    /\ nextRowId = 1
    /\ req = <<>>
    /\ issued = <<>>
    /\ server \in {"index-local.js", "index.js"}
    /\ pool \in BOOLEAN
    /\ server = "index-local.js" => pool = FALSE
    /\ snapshots = <<>>
    /\ pg = <<>>
    /\ report = [battery |-> "", meminfo |-> ""]
    /\ outcome = <<>>

NextStore ==
    \/ Tick
    \/ CaptureStarts
    \/ \E r \in 1..Len(req) : InsertCompletes(r)
    \/ \E r \in 1..Len(req) : CaptureResponds(r)
    \/ FreshDeleteApplied
    \/ \E r \in 1..Len(req) : FreshContinues(r)
    \/ ClearAll
    \/ GetHistory
    \/ PgCaptureStarts
    \/ \E r \in 1..Len(pg) : PgConnected(r)
    \/ \E r \in 1..Len(pg) : PgInsertCompletes(r)
    \/ \E r \in 1..Len(pg) : PgSelectCompletes(r)

SpecStore == InitStore /\ [][NextStore]_vars

InitHistory ==
    /\ packageNames = <<>>
    /\ i = 0
    /\ pcBatch = "idle"
    /\ task = EmptyObject
    /\ appNames = EmptyObject
    /\ started = {}
    /\ delays = 0
    /\ anyOk = FALSE
    /\ threw = {}
    /\ lastResult = EmptyObject
    /\ clock = 1
    /\ currentSessionId = InitialSessionId
    /\ db = <<>>
    /\ nextRowId = 1
    /\ req = <<>>
    /\ issued = <<>>
    /\ server = "index-local.js"
    /\ pool = FALSE
    /\ snapshots = <<>>
    /\ pg = <<>>
    /\ report = [battery |-> "", meminfo |-> ""]
    /\ outcome = <<>>

NextHistory ==
    \/ Advance
    \/ SavePerformanceMetric
    \/ GetPerformanceHistory
    \/ ClearPerformanceData

SpecHistory == InitHistory /\ [][NextHistory]_vars

(***************************************************************************)
(* The parsers on their own.  A diagnostic report is a text of lines; the  *)
(* reports below are made of at most MaxLines lines each, drawn from lines *)
(* the battery and the meminfo commands print and from damaged ones.  An   *)
(* action applies one parser, or the parsing steps of one handler, to the  *)
(* reports and records what came out.                                      *)
(***************************************************************************)
MaxLines == 2

\* lines of  adb shell dumpsys battery
BatteryLines ==
    <<"  level: 87", "level: 250", "  level:", "42", "  scale: 100",
      "no battery field">>

\* lines of  adb shell dumpsys meminfo
MeminfoLines ==
    <<"Total RAM: 4,096,000 kB", " Free RAM: 1,024,000 kB",
      "Available RAM: 2,048,000 kB", "Total RAM: unknown",
      " Free RAM: 5,000,000 kB", "Total RAM: ,, kB", "Total RAM: 0 kB",
      "Applications Memory Usage (in Kilobytes):">>

RECURSIVE JoinLines(_, _)
\* the text whose lines are the lines numbered by picks
JoinLines(lines, picks) ==
    IF picks = <<>> THEN ""
    ELSE lines[Head(picks)] \o "\n" \o JoinLines(lines, Tail(picks))

\* the ways to pick at most MaxLines lines
Picks(lines) ==
    UNION {[1..n -> 1..Len(lines)] : n \in 0..MaxLines}

BatteryReports == {JoinLines(BatteryLines, picks) : picks \in Picks(BatteryLines)}
MeminfoReports == {JoinLines(MeminfoLines, picks) : picks \in Picks(MeminfoLines)}

\* index.js:127-130 applied to a battery report
ParseBattery ==
    /\ outcome = <<>>
    /\ outcome' = <<[by |-> "parseBattery", value |-> parseBattery(report.battery)]>>
    /\ UNCHANGED <<report, resolverVars, storeVars, pgVars>>

\* index.js:137-148 applied to a meminfo report
ParseMemory ==
    /\ outcome = <<>>
    /\ outcome' = <<[by |-> "parseMemory", value |-> parseMemory(report.meminfo)]>>
    /\ UNCHANGED <<report, resolverVars, storeVars, pgVars>>

\* index-local.js:428-467: currentData, the snapshot the handler saves and
\* returns as current, from what the two commands gave
LocalCurrentData ==
    /\ outcome = <<>>
    /\ \E batteryOk \in BOOLEAN, memOk \in BOOLEAN :
          outcome' = <<[by |-> "index-local.js", status |-> 200,
                       batteryOk |-> batteryOk, memoryOk |-> memOk,
                       battery_level |->
                           LocalBatteryLevel([ok |-> batteryOk, stdout |-> report.battery]),
                       memory_used_mb |->
                           LocalMemoryUsage([ok |-> memOk, stdout |-> report.meminfo])]>>
    /\ UNCHANGED <<report, resolverVars, storeVars, pgVars>>

\* index.js:180-195 and 208, 236: the values the handler inserts and returns
\* as current, or the error it throws before (241)
PgCurrentData ==
    /\ outcome = <<>>
    /\ \E batteryOk \in BOOLEAN, memoryOk \in BOOLEAN :
          LET batteryLevel == parseBattery(report.battery)
              memoryUsedMb == parseMemory(report.meminfo)
          IN  outcome' =
                <<[by |-> "index.js",
                   batteryOk |-> batteryOk, memoryOk |-> memoryOk,
                   status |-> IF \/ ~batteryOk \/ ~memoryOk
                                 \/ batteryLevel = Null \/ memoryUsedMb = Null
                              THEN 500 ELSE 200,
                   battery_level |-> batteryLevel,
                   memory_used_mb |-> memoryUsedMb]>>
    /\ UNCHANGED <<report, resolverVars, storeVars, pgVars>>

InitParse ==
    /\ packageNames = <<>>
    /\ i = 0
    /\ pcBatch = "idle"
    /\ task = EmptyObject
    /\ appNames = EmptyObject
    /\ started = {}
    /\ delays = 0
    /\ anyOk = FALSE
    /\ threw = {}
    /\ lastResult = EmptyObject
    /\ clock = 1
    /\ currentSessionId = InitialSessionId
    /\ db = <<>>
    /\ nextRowId = 1
    /\ req = <<>>
    /\ issued = <<>>
    /\ server = "index.js"
    /\ pool = FALSE
    /\ snapshots = <<>>
    /\ pg = <<>>
    /\ report \in [battery : BatteryReports, meminfo : MeminfoReports]
    /\ outcome = <<>>

NextParse ==
    \/ ParseBattery
    \/ ParseMemory
    \/ LocalCurrentData
    \/ PgCurrentData

SpecParse == InitParse /\ [][NextParse]_vars

(***************************************************************************)
(* Properties of the resolver                                              *)
(***************************************************************************)
InputIds == {packageNames[k] : k \in 1..Len(packageNames)}

\* the getAppName calls that have been started and have not settled
InProgress == {p \in DOMAIN task : task[p].pc \notin {"done", "rejected"}}

\* C1: when getAppNames has returned for a non-empty list, the mapping has
\* a key for every input id and every mapped name is a non-empty string,
\* whatever the channel answered.
C1_EveryIdHasNonEmptyName ==
    (pcBatch = "done" /\ Len(packageNames) > 0) =>
        \A id \in InputIds : id \in DOMAIN appNames /\ appNames[id] # ""

\* C2: when every channel call of the run failed, getAppNames returns, has
\* exactly one entry per input id, and each entry is the name synthesized
\* from the id itself (Method 4 of getAppName: generic trailing segment
\* discarded, spaces before capitals and digit runs).
C2_AllFailedGivesSynthesizedNames ==
    /\ ~anyOk => pcBatch # "rejected"
    /\ (pcBatch = "done" /\ ~anyOk) =>
          /\ DOMAIN appNames = InputIds
          /\ \A id \in InputIds : appNames[id] = GenerateReadableName(id)

\* C3: getAppNames is never rejected by a resolution that raised, every id
\* of the list is resolved and present in the result, and an id whose
\* resolution raised is mapped to its synthesized name (Method 4).
C3_FailureIsolatedAndSynthesized ==
    /\ pcBatch # "rejected"
    /\ pcBatch = "done" =>
          /\ started = 1..Len(packageNames)
          /\ DOMAIN appNames = InputIds
          /\ \A p \in threw :
                appNames[packageNames[p]] = GenerateReadableName(packageNames[p])

\* the group that follows the positions already started: the next three
\* positions of the list, fewer only at its end
NextGroup(done) ==
    (Cardinality(done) + 1)..Min(Cardinality(done) + 3, Len(packageNames))

C4_Bounded ==
    /\ Cardinality(InProgress) <= 3
    /\ \E k \in 0..Len(packageNames) : started = 1..k
    /\ pcBatch = "await_all" => DOMAIN task = started \ (1..i)

C4_GroupStart ==
    started' # started =>
        /\ InProgress = {}
        /\ \A p \in started : packageNames[p] \in DOMAIN appNames
        /\ started' = started \cup NextGroup(started)
        /\ \A p \in NextGroup(started) : p \in DOMAIN task' /\ task'[p].pc = "pm"

\* C4: the ids are resolved in consecutive groups of three in input order
\* (only the last group may be smaller); the calls of a group are started
\* together, no call of the next group starts before every call of the
\* group before it has finished and its results are stored, and at most
\* three calls are in progress at any moment.
C4_GroupsOfThreeInOrder == []C4_Bounded /\ [][C4_GroupStart]_vars

\* the second group is being resolved, the first one finished
C4_Witness ==
    /\ pcBatch = "await_all"
    /\ i = 3
    /\ InProgress # {}
    /\ Cardinality(DOMAIN appNames) = 3

(***************************************************************************)
(* Properties of the capture handlers and of the telemetry store.          *)
(***************************************************************************)
Captures == {r \in 1..Len(req) : req[r].kind = "capture"}
Responded == {r \in 1..Len(req) : req[r].pc = "responded"}
PgResponded == {r \in 1..Len(pg) : pg[r].pc = "responded"}
\* the captures of index.js that got serial, battery level and memory
PgSnapshots == {r \in 1..Len(pg) : pg[r].serialOk /\ pg[r].batteryOk /\ pg[r].memoryOk}

NotRetained(r) ==
    /\ \A row \in Rows(db) : row.by # r
    /\ \A q \in (1..Len(req)) \ {r} :
          \A k \in 1..Len(req[q].history) : req[q].history[k].by # r

\* the same for a capture of index.js
PgNotRetained(r) ==
    /\ \A row \in Rows(snapshots) : row.by # r
    /\ \A q \in (1..Len(pg)) \ {r} :
          \A k \in 1..Len(pg[q].history) : pg[q].history[k].by # r

\* C6: when the insert of a capture fails, the response is a success whose
\* current is the snapshot just captured, and that snapshot is in no later
\* history: it is not stored and no other request's history holds it.
C6_UnsavedSnapshotReturnedNotRetained ==
    /\ \A r \in Captures :
          (req[r].pc \in {"reading", "responded"} /\ ~req[r].saved) =>
              /\ NotRetained(r)
              /\ req[r].pc = "responded" =>
                    /\ req[r].status = 200
                    /\ req[r].current = <<CurrentOf(req[r], r)>>
    /\ \A r \in PgSnapshots :
          ~pg[r].saved =>
              /\ PgNotRetained(r)
              /\ pg[r].pc = "responded" =>
                    /\ pg[r].status = 200
                    /\ pg[r].current = <<PgCurrent(pg[r], r)>>

C6_Witness ==
    \E r \in Captures \cap Responded, q \in Captures \cap Responded :
        /\ r < q
        /\ ~req[r].saved
        /\ req[q].saved
        /\ Len(req[q].history) > 0
        /\ req[q].history[1].by = q

\* C7 as stated: whenever a capture has obtained a snapshot (its commands
\* ran and their output was parsed), its response is not an error and the
\* history in it is not empty, whether the insert failed, the history read
\* failed or there is no store.
C7_HistoryNeverEmptyNorError ==
    /\ \A r \in Captures \cap Responded :
          (req[r].batteryOk /\ req[r].memoryOk) =>
              (req[r].status = 200 /\ Len(req[r].history) > 0)
    /\ \A r \in PgSnapshots \cap PgResponded :
          pg[r].status = 200 /\ Len(pg[r].history) > 0

\* the result of the last getPerformanceHistory call, if it is still there
Results == {r \in 1..Len(req) : req[r].kind = "history" /\ req[r].pc = "responded"}
Stored(r) == Selected(db, req[r].hsid)
Returned(r) == {req[r].history[k] : k \in 1..Len(req[r].history)}

\* C8 as stated: getPerformanceHistory(limit, sessionId) returns exactly
\* min(limit, n) of the n rows of the session, all of the session, the most
\* recent by capturedAt, in strictly increasing capturedAt order.
C8_ExactlyMinStrictlyIncreasing ==
    \A r \in Results :
        LET h == req[r].history IN
        /\ Len(h) = Min(req[r].limit, Cardinality(Stored(r)))
        /\ req[r].hsid # NoSession => \A x \in Returned(r) : x.session_id = req[r].hsid
        /\ \A x \in Returned(r) : \A row \in Stored(r) :
              (\A y \in Returned(r) : y.by # row.by) => row.timestamp <= x.captured_at
        /\ \A k \in 1..(Len(h) - 1) : h[k].captured_at < h[k + 1].captured_at

\* C8: getPerformanceHistory(limit, sessionId) returns min(limit, n) of the
\* n rows of the session when limit >= 0 and all n when limit < 0 (every
\* row of the table when no session is given); the rows returned are
\* distinct rows of the session, none of the rows left out is more recent
\* by capturedAt than one returned, and they come in non-decreasing
\* capturedAt order, strictly increasing when no two of them have the same
\* capturedAt.
C8_MostRecentOldestFirst ==
    \A r \in Results :
        LET h == req[r].history
            n == Cardinality(Stored(r))
        IN
        /\ Len(h) = IF req[r].limit < 0 THEN n ELSE Min(req[r].limit, n)
        /\ \A k \in 1..Len(h) : \E row \in Stored(r) : h[k] = FormatRow(row)
        /\ \A k, m \in 1..Len(h) : k # m => h[k].by # h[m].by
        /\ req[r].hsid # NoSession => \A x \in Returned(r) : x.session_id = req[r].hsid
        /\ \A x \in Returned(r) : \A row \in Stored(r) :
              (\A y \in Returned(r) : y.by # row.by) => row.timestamp <= x.captured_at
        /\ \A k \in 1..(Len(h) - 1) : h[k].captured_at <= h[k + 1].captured_at
        /\ (\A k, m \in 1..Len(h) : k # m => h[k].captured_at # h[m].captured_at) =>
              \A k \in 1..(Len(h) - 1) : h[k].captured_at < h[k + 1].captured_at

C8_Witness ==
    \E r \in Results :
        /\ req[r].limit = 3
        /\ req[r].hsid # NoSession
        /\ Cardinality(Stored(r)) = 5
        /\ Len(req[r].history) = 3
        /\ \A k \in 1..2 : req[r].history[k].captured_at < req[r].history[k + 1].captured_at
        /\ \E row \in Stored(r) : row.timestamp < req[r].history[1].captured_at

\* a step of a start-fresh-monitoring request
FreshArrives ==
    Len(req') = Len(req) + 1 /\ req'[Len(req')].kind = "fresh"
FreshStep ==
    FreshArrives \/ \E r \in 1..Len(req) : req[r].kind = "fresh" /\ req'[r] # req[r]

C9_KeepsRows == FreshStep => \A row \in Rows(db) : row \in Rows(db')

C9_DeletesThenSwitches ==
    /\ FreshArrives =>
          IF req'[Len(req')].status = 500
          THEN db' = db /\ req'[Len(req')].pc = "responded"
          ELSE db' = <<>> /\ req'[Len(req')].deleted = Len(db)
    /\ issued' # issued => db' = db
    /\ ~FreshStep => (currentSessionId' = currentSessionId /\ issued' = issued)

C9_FailedFreshKeepsSession ==
    \A r \in 1..Len(req) :
        (req[r].kind = "fresh" /\ req[r].status = 500) => req[r].session_id = ""

PriorSessionId(k) == IF k = 1 THEN InitialSessionId ELSE issued[k - 1]

\* C10 as stated: every start of a fresh session generates an id that
\* differs from the id active before it, and no two starts generate the
\* same id, also when they read the same clock value.
C10_GeneratedIdsDifferAndNeverRepeat ==
    /\ \A k \in 1..Len(issued) : issued[k] # PriorSessionId(k)
    /\ \A k, m \in 1..Len(issued) : k # m => issued[k] # issued[m]

\* the session id that is the active one, as the starts of sessions tell it
ActiveSessionId == IF issued = <<>> THEN InitialSessionId ELSE issued[Len(issued)]

\* a capture calls savePerformanceMetric
CaptureArrives ==
    Len(req') = Len(req) + 1 /\ req'[Len(req')].kind = "capture"

C11_TaggedAtCall ==
    /\ CaptureArrives => req'[Len(req')].sid = ActiveSessionId
    /\ Len(db') > Len(db) =>
          /\ Len(db') = Len(db) + 1
          /\ LET row == db'[Len(db')] IN
             /\ row.by \in Captures
             /\ req[row.by].pc = "saving"
             /\ row.session_id = req[row.by].sid

C11_RowsOfKnownSessions ==
    /\ currentSessionId = ActiveSessionId
    /\ \A row \in Rows(db) :
          /\ row.session_id = req[row.by].sid
          /\ row.session_id \in {InitialSessionId} \cup {issued[k] : k \in 1..Len(issued)}

\* C11: a snapshot appended without a session id of its own is tagged with
\* the session id that is the active one when savePerformanceMetric is
\* called for it: a call made after a start of a fresh session has returned
\* tags its row with the new id, and the row of a call is stored with the
\* id the call read, whatever happens before the INSERT ends.
C11_TaggedWithActiveSession ==
    []C11_RowsOfKnownSessions /\ [][C11_TaggedAtCall]_vars

C11_Witness ==
    /\ Len(issued) = 1
    /\ currentSessionId # InitialSessionId
    /\ \E row \in Rows(db) :
          row.session_id = currentSessionId /\ req[row.by].pc = "responded"

\* a clear of the table has just answered
ClearStep ==
    \E r \in 1..Len(req') :
        /\ req'[r].kind = "clear"
        /\ r > Len(req) \/ req'[r] # req[r] \/ db' # db

ClearAnswer == req'[CHOOSE r \in 1..Len(req') : req'[r].kind = "clear" /\ (r > Len(req) \/ req'[r] # req[r] \/ db' # db)]

C12_ClearRemovesAll ==
    ClearStep =>
        IF ClearAnswer.status = 200
        THEN /\ db' = <<>>
             /\ ClearAnswer.deleted = Len(db)
             /\ ClearAnswer.removed = {row.session_id : row \in Rows(db)}
             /\ \A sessionId \in KnownSessions \cup {NoSession}, limit \in LimitArgs :
                   getPerformanceHistory(db', limit, sessionId) = {<<>>}
        ELSE db' = db /\ ClearAnswer.deleted = 0

\* C12: clearPerformanceData removes every stored row, of every session
\* and not only of the active one, and resolves with the number of rows it
\* removed; right after it getPerformanceHistory gives the empty list for
\* every session id and for no session id.  When the DELETE fails nothing
\* is removed.
C12_ClearRemovesEverySession == [][C12_ClearRemovesAll]_vars

C12_Witness ==
    \E r \in 1..Len(req) :
        /\ req[r].kind = "clear"
        /\ req[r].status = 200
        /\ req[r].deleted >= 2
        /\ Cardinality(req[r].removed) = 2
        /\ db = <<>>

\* the outcome of the savePerformanceMetric call that has just settled
Saves == {r \in 1..Len(req) : req[r].kind = "save"}

\* C13 as stated: savePerformanceMetric never fails its caller: when the
\* INSERT fails the call still resolves, with an identifier.
C13_AppendNeverRejects ==
    \A r \in Saves : req[r].pc = "resolved" /\ req[r].lastID > 0

C13_Outcome ==
    \A r \in Saves :
        IF req[r].saved
        THEN /\ req[r].pc = "resolved"
             /\ db # <<>>
             /\ db[Len(db)].id = req[r].lastID
             /\ nextRowId = req[r].lastID + 1
        ELSE /\ req[r].pc = "rejected"
             /\ req[r].lastID = 0
             /\ \A row \in Rows(db) : row.id < nextRowId

C13_RejectedStoresNothing ==
    (\E r \in 1..Len(req') : req'[r].kind = "save" /\ req'[r].pc = "rejected"
                             /\ (r > Len(req) \/ req[r] # req'[r])) =>
        (db' = db /\ nextRowId' = nextRowId)

\* C13: savePerformanceMetric resolves with the id of the inserted row when
\* the INSERT succeeds; when the INSERT fails it rejects, gives no
\* identifier and stores nothing (it is the capture handler that catches
\* the rejection and goes on, see C6).
C13_AppendRejectsOnFailure == []C13_Outcome /\ [][C13_RejectedStoresNothing]_vars

C13_Witness ==
    \E r \in Saves : req[r].pc = "rejected" /\ Len(db) >= 1

\* the histories that came from a SELECT of a capture or of a history request
ReadHistories ==
    {req[r].history : r \in {q \in Responded : req[q].kind \in {"capture", "history"}}}

\* C14 as stated: with captures running concurrently, the rows of one
\* session are in the table in the order in which their appends were
\* called, and every row a history read returns is a complete row: the
\* time, the metrics and the session of one capture.
C14_AppendsInArrivalOrder ==
    /\ \A k, m \in 1..Len(db) :
          (k < m /\ db[k].session_id = db[m].session_id) => db[k].by < db[m].by
    /\ \A h \in ReadHistories : \A k \in 1..Len(h) :
          /\ h[k].by \in Captures
          /\ h[k].captured_at = req[h[k].by].now
          /\ h[k].battery_level = req[h[k].by].battery
          /\ h[k].memory_used_mb = req[h[k].by].memory
          /\ h[k].session_id \in {req[h[k].by].sid, Undefined}


(***************************************************************************)
(* Properties of the parsers                                               *)
(***************************************************************************)
\* the snapshots a handler built from the reports and went on to save and
\* to return as current
CurrentData ==
    {outcome[k] : k \in {n \in 1..Len(outcome) :
        outcome[n].by \in {"index-local.js", "index.js"} /\ outcome[n].status = 200}}

ValidBatteryLevel(b) == b = Null \/ (b.kind = "number" /\ b.v \in 0..100)
ValidMemoryUsed(m) == m = Null \/ (m.kind = "number" /\ m.v >= 0)

\* C15: every snapshot that is saved or returned as current has a battery
\* level that is null or an integer in 0..100 and a used memory that is
\* null or a non-negative integer, whatever text the commands printed.
C15_SnapshotMetricsInRange ==
    \A c \in CurrentData :
        ValidBatteryLevel(c.battery_level) /\ ValidMemoryUsed(c.memory_used_mb)


\* what each line of a meminfo report that has a capacity field says: the
\* field and the number of kB written with thousands separators, NaN when
\* the field holds separators only
CapacityLines ==
    { [line |-> "Total RAM: 4,096,000 kB", field |-> "Total", kb |-> Num(4096000)],
      [line |-> " Free RAM: 1,024,000 kB", field |-> "Free", kb |-> Num(1024000)],
      [line |-> "Available RAM: 2,048,000 kB", field |-> "Available", kb |-> Num(2048000)],
      [line |-> " Free RAM: 5,000,000 kB", field |-> "Free", kb |-> Num(5000000)],
      [line |-> "Total RAM: ,, kB", field |-> "Total", kb |-> NaN],
      [line |-> "Total RAM: 0 kB", field |-> "Total", kb |-> Num(0)] }

\* the first capacity field of that name in the text: found, and its kB
FirstCapacity(text, field) ==
    LET lines == Split(text, "\n")
        hits == {k \in 1..Len(lines) :
                    \E e \in CapacityLines : e.line = lines[k] /\ e.field = field}
        first == CHOOSE k \in hits : \A h \in hits : k <= h
    IN  IF hits = {} THEN [found |-> FALSE, kb |-> Null]
        ELSE [found |-> TRUE,
              kb |-> (CHOOSE e \in CapacityLines : e.line = lines[first]).kb]

\* r is n / d rounded to the nearest integer, halves upwards (d > 0)
IsRounded(r, n, d) == 2 * d * r <= 2 * n + d /\ 2 * n + d < 2 * d * (r + 1)

TotalField == FirstCapacity(report.meminfo, "Total")
FreeField == FirstCapacity(report.meminfo, "Free")
AvailableField == FirstCapacity(report.meminfo, "Available")

\* the text of the example: Total 4,096,000 kB and Free 1,024,000 kB
ExampleMeminfo == "Total RAM: 4,096,000 kB\n Free RAM: 1,024,000 kB\n"

ParseMemoryOutcomes ==
    {outcome[k] : k \in {n \in 1..Len(outcome) : outcome[n].by = "parseMemory"}}
LocalOutcomes ==
    {outcome[k] : k \in {n \in 1..Len(outcome) : outcome[n].by = "index-local.js"}}

AllSpaces(text, a, b) == \A k \in a..b : IsSpace(CharAt(text, k))
AllDigits(text, a, b) == \A k \in a..b : IsDigit(CharAt(text, k))

\* the positions w of text where the digits of a level field start: "level:"
\* stands before w, with nothing but white space in between
LevelDigitsAt(text) ==
    {w \in 1..Len(text) :
        /\ IsDigit(CharAt(text, w))
        /\ \E p \in 1..w : /\ StartsWithAt(text, "level:", p)
                          /\ p + Len("level:") <= w
                          /\ AllSpaces(text, p + Len("level:"), w - 1)}

\* the digits written from position w on, to the last of them
DigitsFrom(text, w) ==
    LET e == CHOOSE k \in w..Len(text) :
                /\ AllDigits(text, w, k)
                /\ k = Len(text) \/ ~IsDigit(CharAt(text, k + 1))
    IN  SubSeq(text, w, e)

ParseBatteryOutcomes ==
    {outcome[k] : k \in {n \in 1..Len(outcome) : outcome[n].by = "parseBattery"}}

\* C17: parseBattery returns the integer written after the first level:
\* field of the text that is followed by digits, and returns null, as a
\* value and not as an exception, when the text has no such field.
C17_LevelOrNull ==
    \A o \in ParseBatteryOutcomes :
        LET text == report.battery
            fields == LevelDigitsAt(text)
            first == CHOOSE w \in fields : \A v \in fields : w <= v
        IN  IF fields = {} THEN o.value = Null
            ELSE /\ o.value.kind = "number"
                 /\ NumberToString(o.value.v) = DigitsFrom(text, first)

\* parseBattery has read 87 in a report that has other lines too
C17_Witness ==
    /\ Includes(report.battery, "level: 87")
    /\ Includes(report.battery, "scale: 100")
    /\ \E o \in ParseBatteryOutcomes : o.value = Num(87)


(***************************************************************************)
(* Properties of the strategy chain of getAppName                          *)
(***************************************************************************)
\* the listing shows the installation path of the package
PathFound(packageName, r) ==
    r.ok /\ Includes(r.stdout, packageName) /\ MatchPath(r.stdout).found

\* the first line of the embedded strings, and whether it is a usable name
StringsName(r) == Trim(Split(r.stdout, "\n")[1])
StringsYields(packageName, r) ==
    /\ r.ok
    /\ Trim(r.stdout) # ""
    /\ StringsName(r) # ""
    /\ StringsName(r) # packageName
    /\ ~Includes(StringsName(r), "package:")

\* the label patterns that match the detailed info with a capture that is
\* not the null marker, and the name the first of them captures
LabelCandidates(stdout) ==
    {k \in 1..Len(patterns) :
        LET m == MatchPattern(patterns[k], stdout) IN
        m.found /\ m.g1 # "" /\ Trim(m.g1) # "null"}
DumpsysYields(r) == r.ok /\ LabelCandidates(r.stdout) # {}
DumpsysName(r) ==
    LET first == CHOOSE k \in LabelCandidates(r.stdout) :
                    \A h \in LabelCandidates(r.stdout) : k <= h
    IN  IF DumpsysYields(r) THEN Trim(MatchPattern(patterns[first], r.stdout).g1)
        ELSE ""

\* for each package name, command and result: whether the strategy the
\* command belongs to yields, and the name it yields
Findings ==
    UNION { { [cmd |-> "pm", packageName |-> PackageIds[k], result |-> r,
               yields |-> PathFound(PackageIds[k], r), name |-> ""] :
                r \in ChannelResults(PmListTexts(PackageIds[k])) }
            \cup
            { [cmd |-> "strings", packageName |-> PackageIds[k], result |-> r,
               yields |-> StringsYields(PackageIds[k], r), name |-> StringsName(r)] :
                r \in ChannelResults(StringsTexts(PackageIds[k])) }
            \cup
            { [cmd |-> "dumpsys", packageName |-> PackageIds[k], result |-> r,
               yields |-> DumpsysYields(r), name |-> DumpsysName(r)] :
                r \in ChannelResults(DumpsysTexts) } :
            k \in 1..Len(PackageIds) }

\* call p begins in this step
CallStarts(p) == p \in DOMAIN task' /\ p \notin DOMAIN task

\* a command of call p returns in this step
CommandReturns(p) ==
    /\ p \in DOMAIN task
    /\ p \in DOMAIN task'
    /\ lastResult'[p] # lastResult[p]

\* what the command that returns in this step found
Finding(p) ==
    CHOOSE f \in Findings :
        /\ f.cmd = lastResult'[p].cmd
        /\ f.packageName = packageNames[p]
        /\ f.result.ok = lastResult'[p].ok
        /\ f.result.stdout = lastResult'[p].stdout

\* the chain in the order of the claim: detailed info, then listing and
\* embedded strings, then what follows
StructuredFirstStep(p) ==
    /\ CallStarts(p) => task'[p].pc = "dumpsys"
    /\ CommandReturns(p) =>
          LET f == Finding(p) IN
          CASE f.cmd = "dumpsys" ->
                  IF f.yields THEN task'[p] = Resolved(f.name)
                  ELSE task'[p].pc = "pm"
            [] f.cmd = "pm" ->
                  IF f.yields THEN task'[p].pc = "strings"
                  ELSE task'[p].pc = "done"
            [] f.cmd = "strings" ->
                  /\ task'[p].pc = "done"
                  /\ f.yields => task'[p] = Resolved(f.name)

PathProbeFirstStep(p) ==
    /\ CallStarts(p) => task'[p] = Awaiting("pm")
    /\ CommandReturns(p) =>
          LET f == Finding(p) IN
          CASE f.cmd = "pm" ->
                  /\ task[p].pc = "pm"
                  /\ task'[p] = IF f.yields THEN Awaiting("strings")
                                ELSE Awaiting("dumpsys")
            [] f.cmd = "strings" ->
                  /\ task[p].pc = "strings"
                  /\ task'[p] = IF f.yields THEN Resolved(f.name)
                                ELSE Awaiting("dumpsys")
            [] f.cmd = "dumpsys" ->
                  /\ task[p].pc = "dumpsys"
                  /\ task'[p] = IF f.yields THEN Resolved(f.name)
                                ELSE CatchBlock(packageNames[p])

YieldsName(p) ==
    /\ CommandReturns(p)
    /\ Finding(p).cmd \in {"strings", "dumpsys"}
    /\ Finding(p).yields

\* C19: in the step in which a strategy yields a name the call is resolved
\* with it, and a resolved call awaits no command and is handed no result
\* any more: the later strategies issue nothing for that id.
C19_LaterStrategiesSkipped ==
    [][\A p \in 1..Len(packageNames) :
          /\ YieldsName(p) => task'[p] = Resolved(Finding(p).name)
          /\ (p \in DOMAIN task /\ p \in DOMAIN task' /\ task[p].pc = "done") =>
                task'[p] = task[p] /\ lastResult'[p] = lastResult[p]]_vars

\* the run is over and a call was resolved by the embedded strings: the
\* detailed-info command was not issued for it
C19_Witness ==
    /\ pcBatch = "done"
    /\ \E p \in DOMAIN task :
          /\ lastResult[p].cmd = "strings"
          /\ task[p] = Resolved("App Label")

\* where the command outcome g leaves a call
After(g) ==
    CASE g.cmd = "pm" -> AfterPmList(g.packageName, g.result)
      [] g.cmd = "strings" -> AfterStrings(g.packageName, g.result)
      [] g.cmd = "dumpsys" -> AfterDumpsys(g.packageName, g.result)

\* where each command leaves a call when it returns ok with a text in which
\* nothing is found
EmptyContinuations ==
    { [cmd |-> g.cmd, packageName |-> g.packageName, next |-> After(g)] :
        g \in {f \in Findings : f.result.ok /\ ~f.yields} }

\* C20: a command that returns ok = false leaves the call exactly where the
\* same command leaves it when it returns ok with a text in which nothing
\* is found: after the listing or the embedded strings the detailed-info
\* command is awaited, after the detailed-info command control goes on to
\* the alias lookup (which ends in the catch block, with or without a
\* channel error); the call is not rejected.
C20_ErrorYieldsNothing ==
    [][\A p \in 1..Len(packageNames) :
          (CommandReturns(p) /\ ~lastResult'[p].ok) =>
              /\ task'[p].pc # "rejected"
              /\ \E c \in EmptyContinuations :
                    /\ c.cmd = Finding(p).cmd
                    /\ c.packageName = packageNames[p]
                    /\ task'[p] = c.next
              /\ Finding(p).cmd \in {"pm", "strings"} => task'[p] = Awaiting("dumpsys")
              /\ Finding(p).cmd = "dumpsys" => task'[p].pc = "done"]_vars

\* the listing command failed and the call awaits the detailed info
C20_Witness ==
    \E p \in DOMAIN task :
        /\ lastResult[p].cmd = "pm"
        /\ ~lastResult[p].ok
        /\ task[p] = Awaiting("dumpsys")


\* the calls that returned a name found by the structured-field scrape
ScrapedByDumpsys ==
    {p \in DOMAIN task :
        task[p].pc = "done" /\ ~task[p].threw /\ lastResult[p].cmd = "dumpsys"}

\* C21: a name returned by the structured-field scrape is not empty after
\* trimming, is not the package id and is not the null marker.
C21_ScrapedNameUsable ==
    \A p \in ScrapedByDumpsys :
        /\ Trim(task[p].appName) # ""
        /\ task[p].appName # packageNames[p]
        /\ Trim(task[p].appName) # "null"


(***************************************************************************)
(* Properties of the names made from the id itself                         *)
(***************************************************************************)
\* a name that starts with no small letter, has no dot, no capital right
\* after a small letter and no digit run right after another character
WellFormedName(name) ==
    /\ name # ""
    /\ ~Includes(name, ".")
    /\ ~IsLower(CharAt(name, 1))
    /\ \A k \in 2..Len(name) :
          /\ IsUpper(CharAt(name, k)) => ~IsLower(CharAt(name, k - 1))
          /\ IsDigit(CharAt(name, k)) =>
                IsDigit(CharAt(name, k - 1)) \/ CharAt(name, k - 1) = " "

\* C22: when no channel command gave anything, no resolution raises out of
\* getAppName and every id gets a name that is non-empty, is not the dotted
\* id, starts with a capital and has a space before embedded capitals and
\* digit runs (com.example.foo.MusicPlayer gives Music Player).
C22_SynthesizedNameWellFormed ==
    /\ pcBatch # "rejected"
    /\ \A p \in DOMAIN task : task[p].pc # "rejected"
    /\ (pcBatch = "done" /\ ~anyOk) =>
          \A id \in InputIds :
              /\ id \in DOMAIN appNames
              /\ appNames[id] # id
              /\ WellFormedName(appNames[id])
              /\ id = "com.example.foo.MusicPlayer" => appNames[id] = "Music Player"

RECURSIVE WithoutSpaces(_)
WithoutSpaces(s) ==
    IF s = "" THEN ""
    ELSE IF CharAt(s, 1) = " " THEN WithoutSpaces(SubSeq(s, 2, Len(s)))
    ELSE CharAt(s, 1) \o WithoutSpaces(SubSeq(s, 2, Len(s)))

\* the name is the segment, but for the case of letters and added spaces
DerivedFrom(name, segment) ==
    ToLowerCase(WithoutSpaces(name)) = ToLowerCase(segment)

\* the last segment of the id is a generic word, the one before it is not
GenericTail(id) ==
    LET parts == Split(id, ".") IN
    /\ Len(parts) >= 3
    /\ ToLowerCase(parts[Len(parts)]) \in genericWords
    /\ ToLowerCase(parts[Len(parts) - 1]) \notin genericWords

\* the calls in which both scrapes yielded nothing and that have returned
ReachedAliasLookup == {p \in DOMAIN task : task[p].pc = "done" /\ task[p].threw}

\* C23: for an id whose last segment is a generic word and whose segment
\* before it is not, the name returned after both scrapes yielded nothing
\* is derived from the segment before the last.
C23_GenericTailDiscarded ==
    \A p \in ReachedAliasLookup :
        GenericTail(packageNames[p]) =>
            LET parts == Split(packageNames[p], ".") IN
            DerivedFrom(task[p].appName, parts[Len(parts) - 1])

\* index-local-new.js:104-117: the substrings of well-known products and
\* their display names, in the order in which they are tried
AliasTable ==
    << [substring |-> "whatsapp", name |-> "WhatsApp"],
       [substring |-> "instagram", name |-> "Instagram"],
       [substring |-> "facebook", name |-> "Facebook"],
       [substring |-> "google.chrome", name |-> "Google Chrome"],
       [substring |-> "youtube", name |-> "YouTube"],
       [substring |-> "gmail", name |-> "Gmail"],
       [substring |-> "maps", name |-> "Google Maps"],
       [substring |-> "twitter", name |-> "Twitter"],
       [substring |-> "telegram", name |-> "Telegram"],
       [substring |-> "spotify", name |-> "Spotify"],
       [substring |-> "netflix", name |-> "Netflix"],
       [substring |-> "amazon", name |-> "Amazon"],
       [substring |-> "uber", name |-> "Uber"],
       [substring |-> "tiktok", name |-> "TikTok"] >>

\* the entries of the table whose substring the id contains
AliasesIn(id) == {k \in 1..Len(AliasTable) : Includes(id, AliasTable[k].substring)}

\* C24: an id that contains a substring of the alias table and reaches the
\* alias lookup gets the display name of the first entry, in table order,
\* whose substring it contains.
C24_FirstAliasWins ==
    \A p \in ReachedAliasLookup :
        \A k \in AliasesIn(packageNames[p]) :
            (\A j \in AliasesIn(packageNames[p]) : k <= j) =>
                task[p].appName = AliasTable[k].name


(***************************************************************************)
(* Properties of the pacing of getAppNames                                 *)
(***************************************************************************)
\* the number of groups of three, the last one possibly smaller, in n ids
GroupsOf(n) == (n + 2) \div 3

C25_DelaysCounted ==
    /\ started # {} => delays = GroupsOf(Cardinality(started)) - 1
    /\ pcBatch = "delay" =>
          /\ InProgress = {}
          /\ Cardinality(started) < Len(packageNames)
    /\ (pcBatch = "done" /\ Len(packageNames) > 0) =>
          delays = GroupsOf(Len(packageNames)) - 1

C25_DelayStep ==
    /\ (started' # started /\ started # {}) =>
          pcBatch = "delay" /\ delays' = delays + 1
    /\ delays' # delays => (pcBatch = "delay" /\ started' # started)
    /\ (pcBatch' = "delay" /\ pcBatch # "delay") =>
          pcBatch = "await_all" /\ delays' = delays
    /\ (pcBatch' = "done" /\ pcBatch # "done") => delays' = delays

\* C25: after a group has completed and before the next one starts,
\* getAppNames is suspended for the pacing delay; one delay is observed
\* between every two consecutive groups, and none after the last group.
C25_OneDelayBetweenGroups == []C25_DelaysCounted /\ [][C25_DelayStep]_vars

\* a list of two groups has been resolved with one delay
C25_Witness ==
    /\ pcBatch = "done"
    /\ Len(packageNames) = 4
    /\ Cardinality(DOMAIN appNames) = 4
    /\ delays = 1


\* the calls that await a channel command: a call awaits one at a time
CommandsInFlight == {p \in DOMAIN task : task[p].pc \in {"pm", "strings", "dumpsys"}}

\* the group of three a position of the list belongs to
GroupOf(p) == (p - 1) \div batchSize

C27_InFlightBounded ==
    /\ Cardinality(CommandsInFlight) <= batchSize
    /\ \A p, q \in CommandsInFlight : GroupOf(p) = GroupOf(q)

\* a command is issued for call p in this step
CommandIssued(p) ==
    /\ p \in DOMAIN task'
    /\ task'[p].pc \in {"pm", "strings", "dumpsys"}
    /\ p \notin DOMAIN task \/ task'[p].pc # task[p].pc

C27_IssueStep ==
    \A p \in 1..Len(packageNames) :
        CommandIssued(p) =>
            \/ CallStarts(p) /\ CommandsInFlight = {}
            \/ p \in CommandsInFlight /\ CommandReturns(p)

\* C27: during a getAppNames call at most three channel commands are in
\* flight: the commands in flight belong to calls of one group, a call
\* issues its next command only when the one it awaited has returned, and a
\* group starts only when no command is in flight.
C27_AtMostThreeInFlight == []C27_InFlightBounded /\ [][C27_IssueStep]_vars

\* three commands are in flight, of different kinds
C27_Witness ==
    /\ Cardinality(CommandsInFlight) = 3
    /\ \E p, q \in CommandsInFlight :
          task[p].pc = "strings" /\ task[q].pc = "dumpsys"


(***************************************************************************)
(* Properties of the order of the history and of interleaved requests      *)
(***************************************************************************)
\* the place of a returned row in the table: the order of insertion
InsertedAt(x) == CHOOSE k \in 1..Len(db) : FormatRow(db[k]) = x

\* C26: the history of one session is in ascending capturedAt order, and
\* rows of equal capturedAt are in the order in which they were inserted.
C26_AscendingTiesByInsertion ==
    \A r \in Results :
        req[r].hsid # NoSession =>
            LET h == req[r].history IN
            \A k, m \in 1..Len(h) :
                k < m =>
                    /\ h[k].captured_at <= h[m].captured_at
                    /\ h[k].captured_at = h[m].captured_at =>
                          InsertedAt(h[k]) < InsertedAt(h[m])


\* a start-fresh-monitoring request completes in this step
FreshCompletes ==
    \E r \in 1..Len(req) :
        /\ req[r].kind = "fresh"
        /\ req[r].pc = "cleared"
        /\ req'[r].pc = "responded"
        /\ req'[r].status = 200

\* C28: when a start-fresh-monitoring request completes, every row of the
\* table is tagged with the session id it has just started, whatever
\* captures ran between its DELETE and its startNewSession.
C28_NoOldSnapshotAfterFresh ==
    [][FreshCompletes => \A row \in Rows(db') : row.session_id = currentSessionId']_vars

\* C29: the response of a capture whose snapshot was stored reports the
\* session id the snapshot was stored under and carries the history of that
\* session, whatever startNewSession calls ran in between.
C29_ResponseOfStoredSession ==
    \A r \in Captures \cap Responded :
        req[r].saved =>
            /\ req[r].session_id = req[r].sid
            /\ req[r].hsid = req[r].sid


\* C30: a capture of index.js that has responded holds no client of the
\* pool, also when its INSERT or its SELECT failed and the history was
\* generated.
C30_ClientReleasedOnResponse ==
    \A r \in PgResponded : ~pg[r].held

====
